---- MODULE Spec2Model ----
(***************************************************************************)
(* Staged ingestion pipeline of woodpantry-pantry: job creation, the       *)
(* background processing goroutine (LLM extraction, dictionary resolve,    *)
(* staging), the confirm phase and the pantry upsert.                      *)
(*                                                                         *)
(* A step is one write to a table together with the reads and the calls to *)
(* external collaborators that precede it in the same goroutine or         *)
(* request; goroutines and requests interleave between steps.  Floats are  *)
(* scaled to integers: confidence in hundredths, durations in seconds.     *)
(***************************************************************************)
EXTENDS Integers, Sequences, FiniteSets, TLC

VARIABLES
    ingestion_jobs,   \* table ingestion_jobs: sequence, index = job id
    staged_items,     \* table staged_items: per job, its rows in creation order
    pantry_items,     \* table pantry_items: set of rows
    next_pantry_id,   \* next fresh pantry_items.id
    proc,             \* ProcessJobAsync goroutine of each job
    conf,             \* ConfirmJob calls in flight, in order of arrival
    resp,             \* the job and the error of the last ConfirmJob call to return
    audit,            \* per job: confirm calls that passed the status check,
                      \* and writes of status confirmed
    nRequests,        \* requests received so far, per endpoint
    reply,            \* the last HTTP response of the ingest and pantry handlers
    calls,            \* calls made so far to the LLM, the dictionary and the
                      \* publisher, with the last publish attempt
    request_ctx       \* per job: the context of the request that submitted it
                      \* is done

vars == <<ingestion_jobs, staged_items, pantry_items, next_pantry_id,
          proc, conf, resp, audit, nRequests, reply, calls, request_ctx>>

----------------------------------------------------------------------------
(* Bounds *)

MaxJobs == 1        \* jobs submitted
MaxItems == 2       \* candidates one extraction returns
MaxConfirms == 2    \* confirm requests received
MaxAdds == 1        \* add-item requests received
MaxOverrides == 1   \* overrides one confirm request carries
MaxPantryAdds == 2  \* add-item requests received in PantrySpec
MaxDeletes == 1     \* delete requests received
MaxResets == 1      \* reset requests received
MaxRaceJobs == 2    \* jobs submitted in RaceSpec and OverrideSpec
MaxDupOverrides == 2 \* overrides one confirm request carries in OverrideSpec

----------------------------------------------------------------------------
(* Program constants *)

ProcessBudget == 90     \* seconds, context.WithTimeout in ProcessJobAsync
LLMTimeout == 60        \* seconds, http.Client of the extraction call
DictTimeout == 30       \* seconds, http.Client of the dictionary client
ReviewThreshold == 70   \* 0.7 in hundredths

Null == "null"

\* Durations an HTTP call may take, in seconds.
Durations == {0, 30, 60}

Ingredients == {"ing1", "ing2"}

\* Items the extraction may return (raw_text, name, quantity, unit, confidence).
Flour ==
    [raw_text |-> "2 cups flour", name |-> "flour",
     quantity |-> 2, unit |-> "cup", confidence |-> 95]
Chicken ==
    [raw_text |-> "1 lb chicken breast", name |-> "chicken breast",
     quantity |-> 1, unit |-> "lb", confidence |-> 70]
Cilantro ==
    [raw_text |-> "1 bunch cilantro", name |-> "cilantro",
     quantity |-> 1, unit |-> "bunch", confidence |-> 50]

\* A candidate without an amount: the extraction's answer is not validated.
Salt ==
    [raw_text |-> "salt to taste", name |-> "salt",
     quantity |-> 0, unit |-> "", confidence |-> 90]

ExtractedItems == {Flour, Chicken, Cilantro}

\* Collation rank of the raw texts (ORDER BY raw_text).
RawTextRank(t) ==
    CASE t = "1 bunch cilantro" -> 1
      [] t = "1 lb chicken breast" -> 2
      [] t = "2 cups flour" -> 3
      [] t = "salt to taste" -> 4

SeqsUpTo(S, n) == UNION { [1..k -> S] : k \in 0..n }

\* Values a caller may put in an override; <<>> is a nil *float64.
OverrideIngredients == {Null, "ing2"}
OverrideQuantities == {<<>>, <<3>>}
OverrideUnits == {Null, "oz"}

OverrideItem(ids) ==
    [staged_item_id : ids, ingredient_id : OverrideIngredients,
     quantity : OverrideQuantities, unit : OverrideUnits]

----------------------------------------------------------------------------
(* Store queries *)

\* Variant of CreateIngestionJob whose rows start in status processing.
CreateIngestionJob_Processing(type, raw_input) ==
    Append(ingestion_jobs,
           [type |-> type, raw_input |-> raw_input, status |-> "processing"])

\* CreateIngestionJob: status takes the column default 'pending'.
CreateIngestionJob(type, raw_input) ==
    Append(ingestion_jobs,
           [type |-> type, raw_input |-> raw_input, status |-> "pending"])

\* Variant of UpdateIngestionJobStatus that also clears the raw input of a
\* job it sets confirmed.
UpdateIngestionJobStatus_ClearInput(id, status) ==
    [ingestion_jobs EXCEPT ![id].status = status,
                           ![id].raw_input = IF status = "confirmed" THEN ""
                                                                     ELSE @]

\* UpdateIngestionJobStatus: unconditional SET status WHERE id.
UpdateIngestionJobStatus(id, status) ==
    [ingestion_jobs EXCEPT ![id].status = status]

\* CreateStagedItem: the id is generated by the table (a fresh id, here the
\* job and the row's number within the job).
CreateStagedItem(p) ==
    [staged_items EXCEPT ![p.job_id] =
        Append(@, [id |-> <<p.job_id, Len(@) + 1>>, job_id |-> p.job_id,
                   ingredient_id |-> p.ingredient_id, raw_text |-> p.raw_text,
                   quantity |-> p.quantity, unit |-> p.unit,
                   confidence |-> p.confidence, needs_review |-> p.needs_review])]

\* The ids of all rows of staged_items.
StagedItemIDs ==
    UNION { { staged_items[j][k].id : k \in 1..Len(staged_items[j]) } :
            j \in DOMAIN staged_items }

\* Variant of ListStagedItemsByJob without the ORDER BY: the rows come in
\* the order they were created.
ListStagedItemsByJob_CreationOrder(job_id) == { staged_items[job_id] }

\* ListStagedItemsByJob: the job's rows ORDER BY raw_text; rows with equal
\* raw_text come in any order.
ListStagedItemsByJob(job_id) ==
    LET rows == staged_items[job_id]
        n == Len(rows)
    IN  { [k \in 1..n |-> rows[f[k]]] :
            f \in { g \in [1..n -> 1..n] :
                      /\ \A a, b \in 1..n : a # b => g[a] # g[b]
                      /\ \A a, b \in 1..n :
                            a < b => RawTextRank(rows[g[a]].raw_text)
                                       <= RawTextRank(rows[g[b]].raw_text) } }

\* Variant of UpsertPantryItem whose DO UPDATE leaves the unit alone.
UpsertPantryItem_KeepUnit(rows, new_id, ingredient_id, quantity, unit, expires_at) ==
    IF \E r \in rows : r.ingredient_id = ingredient_id
    THEN { IF r.ingredient_id = ingredient_id
           THEN [r EXCEPT !.quantity = quantity, !.expires_at = expires_at]
           ELSE r : r \in rows }
    ELSE rows \cup { [id |-> new_id, ingredient_id |-> ingredient_id,
                      quantity |-> quantity, unit |-> unit,
                      expires_at |-> expires_at] }

\* Variant of UpsertPantryItem without the ON CONFLICT clause.
UpsertPantryItem_Insert(rows, new_id, ingredient_id, quantity, unit, expires_at) ==
    rows \cup { [id |-> new_id, ingredient_id |-> ingredient_id,
                 quantity |-> quantity, unit |-> unit,
                 expires_at |-> expires_at] }

\* Variant of UpsertPantryItem that adds the quantity to the row's quantity.
UpsertPantryItem_Additive(rows, new_id, ingredient_id, quantity, unit, expires_at) ==
    IF \E r \in rows : r.ingredient_id = ingredient_id
    THEN { IF r.ingredient_id = ingredient_id
           THEN [r EXCEPT !.quantity = @ + quantity, !.unit = unit,
                          !.expires_at = expires_at]
           ELSE r : r \in rows }
    ELSE rows \cup { [id |-> new_id, ingredient_id |-> ingredient_id,
                      quantity |-> quantity, unit |-> unit,
                      expires_at |-> expires_at] }

\* Variant of UpsertPantryItem whose DO UPDATE leaves expires_at alone.
UpsertPantryItem_KeepExpiry(rows, new_id, ingredient_id, quantity, unit, expires_at) ==
    IF \E r \in rows : r.ingredient_id = ingredient_id
    THEN { IF r.ingredient_id = ingredient_id
           THEN [r EXCEPT !.quantity = quantity, !.unit = unit]
           ELSE r : r \in rows }
    ELSE rows \cup { [id |-> new_id, ingredient_id |-> ingredient_id,
                      quantity |-> quantity, unit |-> unit,
                      expires_at |-> expires_at] }

\* Variant of UpsertPantryItem whose DO UPDATE keeps the row's expiration
\* when the new one is null (COALESCE).
UpsertPantryItem_Coalesce(rows, new_id, ingredient_id, quantity, unit, expires_at) ==
    IF \E r \in rows : r.ingredient_id = ingredient_id
    THEN { IF r.ingredient_id = ingredient_id
           THEN [r EXCEPT !.quantity = quantity, !.unit = unit,
                          !.expires_at = IF expires_at = Null THEN @
                                                               ELSE expires_at]
           ELSE r : r \in rows }
    ELSE rows \cup { [id |-> new_id, ingredient_id |-> ingredient_id,
                      quantity |-> quantity, unit |-> unit,
                      expires_at |-> expires_at] }

\* UpsertPantryItem: INSERT ... ON CONFLICT (ingredient_id) DO UPDATE.
UpsertPantryItem(rows, new_id, ingredient_id, quantity, unit, expires_at) ==
    IF \E r \in rows : r.ingredient_id = ingredient_id
    THEN { IF r.ingredient_id = ingredient_id
           THEN [r EXCEPT !.quantity = quantity, !.unit = unit,
                          !.expires_at = expires_at]
           ELSE r : r \in rows }
    ELSE rows \cup { [id |-> new_id, ingredient_id |-> ingredient_id,
                      quantity |-> quantity, unit |-> unit,
                      expires_at |-> expires_at] }

----------------------------------------------------------------------------
NoError == [msg |-> "nil", status |-> Null]
ErrNoRows == [msg |-> "sql: no rows in result set", status |-> Null]
\* fmt.Errorf("job %s has status %q, must be staged to confirm", ...)
ErrNotStaged(status) == [msg |-> "must be staged to confirm", status |-> status]
\* fmt.Errorf("upsert pantry item for staged item %s: %w", ...)
ErrUpsert == [msg |-> "upsert pantry item for staged item", status |-> Null]

NoResp == [job |-> 0, err |-> NoError]

\* An HTTP response: the handler, the status code, the message of jsonError,
\* the JSON body (<<>> when there is none) and, when the handler got as far
\* as pantry.UpsertItem, the arguments of that call.
Reply(handler, code, error, body, upsert) ==
    [handler |-> handler, code |-> code, error |-> error, body |-> body,
     upsert |-> upsert]

NoReply == Reply("", 0, "", <<>>, <<>>)

\* No call made yet: the numbers of LLM extraction calls, of dictionary
\* resolve calls and of publish attempts, and the changed_item_ids and the
\* outcome of the last publish attempt.
NoCalls ==
    [llm |-> 0, dictionary |-> 0, publish |-> 0,
     changed_item_ids |-> <<>>, publishErr |-> FALSE]

\* Variant of PublishPantryUpdated that publishes once more after an error.
PublishPantryUpdated_Retry(c, changedItemIDs, pubErr) ==
    [c EXCEPT !.publish = IF pubErr THEN @ + 2 ELSE @ + 1,
              !.changed_item_ids = changedItemIDs,
              !.publishErr = pubErr]

\* publishPantryUpdated: one call of the publisher with the changed ids;
\* its error (pubErr) is logged as a warning and goes no further.
PublishPantryUpdated(c, changedItemIDs, pubErr) ==
    [c EXCEPT !.publish = @ + 1,
              !.changed_item_ids = changedItemIDs,
              !.publishErr = pubErr]

\* The id of the row UpsertPantryItem returns (RETURNING *).
UpsertedID(rows, new_id, ingredient_id) ==
    IF \E r \in rows : r.ingredient_id = ingredient_id
    THEN (CHOOSE r \in rows : r.ingredient_id = ingredient_id).id
    ELSE new_id

Init ==
    /\ ingestion_jobs = <<>>
    /\ staged_items = <<>>
    /\ pantry_items = {}
    /\ next_pantry_id = 1
    /\ proc = <<>>
    /\ conf = <<>>
    /\ resp = NoResp
    /\ audit = <<>>
    /\ nRequests = [confirm |-> 0, add |-> 0, delete |-> 0, reset |-> 0]
    /\ reply = NoReply
    /\ calls = NoCalls
    /\ request_ctx = <<>>

----------------------------------------------------------------------------
(* POST /pantry/ingest *)

JobTypes == {"", "text_blob"}
Contents == {"", "2 cups flour, 1 lb chicken breast"}

\* State of a freshly launched ProcessJobAsync goroutine.  extractErr,
\* createErr, expired, nItems, resolves and resolveFails record what the
\* goroutine did; the other fields are its locals (resolved holds the name
\* given to dictionary.Resolve and the ingredient id it returned, between the
\* call and CreateStagedItem).
NewProc ==
    [pc |-> "extract", items |-> <<>>, i |-> 1, elapsed |-> 0,
     extractErr |-> FALSE, createErr |-> FALSE, expired |-> FALSE,
     nItems |-> 0, resolves |-> 0, resolveFails |-> 0, resolved |-> <<>>]

\* Variant of handleIngest without the check for empty content.
handleIngest_NoContentCheck(type, content, createOK) ==
    IF ~createOK
    THEN /\ reply' = Reply("handleIngest", 500, "failed to create ingest job",
                           <<>>, <<>>)
         /\ UNCHANGED <<ingestion_jobs, staged_items, pantry_items, next_pantry_id,
                        proc, conf, resp, audit, nRequests, calls, request_ctx>>
    ELSE /\ LET jobType == IF type = "" THEN "text_blob" ELSE type
            IN  ingestion_jobs' = CreateIngestionJob(jobType, content)
         /\ proc' = Append(proc, NewProc)
         /\ audit' = Append(audit, [passed |-> 0, confirmed |-> 0])
         /\ staged_items' = Append(staged_items, <<>>)
         /\ reply' = LET id == Len(ingestion_jobs')
                     IN  Reply("handleIngest", 202, "",
                               <<[job_id |-> id,
                                  status |-> ingestion_jobs'[id].status]>>, <<>>)
         /\ request_ctx' = Append(request_ctx, FALSE)
         /\ UNCHANGED <<pantry_items, next_pantry_id, conf, resp, nRequests, calls>>

\* handleIngest: reject empty content, default the type, CreateJob (createOK
\* is whether the INSERT succeeds), launch ProcessJobAsync, and answer 202
\* with the id and the status of the row CreateJob returned.
handleIngest(type, content, createOK) ==
    IF content = ""
    THEN /\ reply' = Reply("handleIngest", 400, "content is required", <<>>, <<>>)
         /\ UNCHANGED <<ingestion_jobs, staged_items, pantry_items, next_pantry_id,
                        proc, conf, resp, audit, nRequests, calls, request_ctx>>
    ELSE IF ~createOK
    THEN /\ reply' = Reply("handleIngest", 500, "failed to create ingest job",
                           <<>>, <<>>)
         /\ UNCHANGED <<ingestion_jobs, staged_items, pantry_items, next_pantry_id,
                        proc, conf, resp, audit, nRequests, calls, request_ctx>>
    ELSE /\ LET jobType == IF type = "" THEN "text_blob" ELSE type
            IN  ingestion_jobs' = CreateIngestionJob(jobType, content)
         /\ proc' = Append(proc, NewProc)
         /\ audit' = Append(audit, [passed |-> 0, confirmed |-> 0])
         /\ staged_items' = Append(staged_items, <<>>)
         /\ reply' = LET id == Len(ingestion_jobs')
                     IN  Reply("handleIngest", 202, "",
                               <<[job_id |-> id,
                                  status |-> ingestion_jobs'[id].status]>>, <<>>)
         /\ request_ctx' = Append(request_ctx, FALSE)
         /\ UNCHANGED <<pantry_items, next_pantry_id, conf, resp, nRequests, calls>>

----------------------------------------------------------------------------
(* ProcessJobAsync / processJob *)

\* Variant of CtxDone whose context derives from the context of the
\* submitting request: it is also done once that request's context is.
CtxDone_FromRequest(elapsed) ==
    \/ elapsed >= ProcessBudget
    \/ \E j \in DOMAIN request_ctx : request_ctx[j]

\* ctx.Done() of the goroutine's context.WithTimeout(Background, 90s).
CtxDone(elapsed) == elapsed >= ProcessBudget

\* Time on the goroutine's clock after a call that took d seconds.
After(elapsed, d) ==
    IF elapsed + d >= ProcessBudget THEN ProcessBudget ELSE elapsed + d

\* Variant of NeedsReview whose threshold comparison is inclusive.
NeedsReview_Inclusive(confidence, resolveErr) ==
    IF resolveErr THEN TRUE ELSE confidence <= ReviewThreshold

\* needsReview := item.Confidence < 0.7, forced true on a resolve error.
NeedsReview(confidence, resolveErr) ==
    IF resolveErr THEN TRUE ELSE confidence < ReviewThreshold

\* The goroutine has returned: its locals are gone.
Returned(p, elapsed) ==
    [p EXCEPT !.pc = "done", !.items = <<>>, !.i = 1, !.elapsed = 0,
              !.resolved = <<>>, !.expired = CtxDone(elapsed)]

\* Variant of MarkFailed that only logs the error.
MarkFailed_LogOnly(j, elapsed) == ingestion_jobs

\* ProcessJobAsync's error branch: log, then UpdateIngestionJobStatus(failed)
\* with the goroutine's ctx; the result and the error are discarded.
MarkFailed(j, elapsed) ==
    IF CtxDone(elapsed)
    THEN ingestion_jobs
    ELSE UpdateIngestionJobStatus(j, "failed")

\* Variant of ExtractOK that marks the job as processing once the extraction
\* has answered.
ExtractOK_MarkProcessing(j, items, d) ==
    /\ proc[j].pc = "extract"
    /\ d < LLMTimeout
    /\ ~CtxDone(After(proc[j].elapsed, d))
    /\ proc' = [proc EXCEPT ![j].items = items,
                            ![j].nItems = Len(items),
                            ![j].elapsed = After(proc[j].elapsed, d),
                            ![j].i = 1,
                            ![j].pc = IF Len(items) = 0 THEN "setStaged"
                                                        ELSE "items"]
    /\ calls' = [calls EXCEPT !.llm = @ + 1]
    /\ ingestion_jobs' = UpdateIngestionJobStatus(j, "processing")
    /\ UNCHANGED <<staged_items, pantry_items, next_pantry_id,
                   conf, resp, audit, nRequests, reply, request_ctx>>

\* extractWithLLM returns the parsed items.
ExtractOK(j, items, d) ==
    /\ proc[j].pc = "extract"
    /\ d < LLMTimeout
    /\ ~CtxDone(After(proc[j].elapsed, d))
    /\ proc' = [proc EXCEPT ![j].items = items,
                            ![j].nItems = Len(items),
                            ![j].elapsed = After(proc[j].elapsed, d),
                            ![j].i = 1,
                            ![j].pc = IF Len(items) = 0 THEN "setStaged"
                                                        ELSE "items"]
    /\ calls' = [calls EXCEPT !.llm = @ + 1]
    /\ UNCHANGED <<ingestion_jobs, staged_items, pantry_items, next_pantry_id,
                   conf, resp, audit, nRequests, reply, request_ctx>>

\* extractWithLLM returns an error (transport, status, decode, or the
\* client's timeout): processJob returns "llm extraction: ..." and the
\* error branch of ProcessJobAsync runs.
ExtractFail(j, d) ==
    /\ proc[j].pc = "extract"
    /\ d <= LLMTimeout
    /\ LET elapsed == After(proc[j].elapsed, d)
       IN  /\ ingestion_jobs' = MarkFailed(j, elapsed)
           /\ proc' = [proc EXCEPT ![j] = Returned([@ EXCEPT !.extractErr = TRUE],
                                                   elapsed)]
    /\ calls' = [calls EXCEPT !.llm = @ + 1]
    /\ UNCHANGED <<staged_items, pantry_items, next_pantry_id,
                   conf, resp, audit, nRequests, reply, request_ctx>>

\* Whether dictionary.Resolve, taking d seconds, can return a result: it
\* errors on the client's timeout and on the ctx deadline.
ResolveCanSucceed(elapsed, d) ==
    d < DictTimeout /\ ~CtxDone(After(elapsed, d))

\* Variant of AfterItem that leaves the loop before the last candidate.
AfterItem_OffByOne(p) == IF p.i + 1 >= Len(p.items) THEN "setStaged" ELSE "items"

\* Variant of AfterItem that leaves the loop after a resolve error.
AfterItem_BreakOnResolveError(p) ==
    IF p.resolveFails > 0 \/ p.i >= Len(p.items) THEN "setStaged" ELSE "items"

\* Where the loop over extracted.Items goes after item i.
AfterItem(p) == IF p.i >= Len(p.items) THEN "setStaged" ELSE "items"

\* One iteration of the loop over extracted.Items: dictionary.Resolve (id is
\* the ingredient id it returns, Null when it errors), then CreateStagedItem.
\* A resolve error is logged and forces needsReview; an error of
\* CreateStagedItem (store error, or the expired ctx) makes processJob return
\* and the error branch of ProcessJobAsync runs.
ProcessItem(j, id, d, storeOK) ==
    /\ proc[j].pc = "items"
    /\ d <= DictTimeout
    /\ id # Null => ResolveCanSucceed(proc[j].elapsed, d)
    /\ LET p == proc[j]
           item == p.items[p.i]
           elapsed == After(p.elapsed, d)
           q == [p EXCEPT !.elapsed = elapsed,
                          !.resolves = @ + 1,
                          !.resolveFails = IF id = Null THEN @ + 1 ELSE @]
       IN  IF storeOK /\ ~CtxDone(elapsed)
           THEN /\ staged_items' = CreateStagedItem(
                      [job_id |-> j, ingredient_id |-> id,
                       raw_text |-> item.raw_text, quantity |-> item.quantity,
                       unit |-> item.unit, confidence |-> item.confidence,
                       needs_review |-> NeedsReview(item.confidence, id = Null)])
                /\ proc' = [proc EXCEPT ![j] = [q EXCEPT !.i = p.i + 1,
                                                         !.pc = AfterItem(q)]]
                /\ UNCHANGED ingestion_jobs
           ELSE /\ staged_items' = staged_items
                /\ ingestion_jobs' = MarkFailed(j, elapsed)
                /\ proc' = [proc EXCEPT ![j] = Returned([q EXCEPT !.createErr = TRUE],
                                                        elapsed)]
    /\ calls' = [calls EXCEPT !.dictionary = @ + 1]
    /\ UNCHANGED <<pantry_items, next_pantry_id, conf, resp, audit, nRequests,
                   reply, request_ctx>>

\* Variant of Candidate that walks the extracted items from the last to the
\* first.
Candidate_Reverse(p) == p.items[Len(p.items) + 1 - p.i]

\* for _, item := range extracted.Items: the candidate of iteration i.
Candidate(p) == p.items[p.i]

\* The first half of an iteration, as a step of its own: dictionary.Resolve
\* for the candidate's name (id is the ingredient id it returns, Null when it
\* errors).  The goroutine waits for the answer before it goes on.
ResolveItem(j, id, d) ==
    /\ proc[j].pc = "items"
    /\ d <= DictTimeout
    /\ id # Null => ResolveCanSucceed(proc[j].elapsed, d)
    /\ proc' = [proc EXCEPT
          ![j].elapsed = After(@, d),
          ![j].resolves = @ + 1,
          ![j].resolveFails = IF id = Null THEN @ + 1 ELSE @,
          ![j].resolved = <<[name |-> Candidate(proc[j]).name,
                             ingredient_id |-> id]>>,
          ![j].pc = "create"]
    /\ calls' = [calls EXCEPT !.dictionary = @ + 1]
    /\ UNCHANGED <<ingestion_jobs, staged_items, pantry_items, next_pantry_id,
                   conf, resp, audit, nRequests, reply, request_ctx>>

\* The second half of the iteration: CreateStagedItem for the candidate with
\* the ingredient id just resolved; its error makes processJob return and the
\* error branch of ProcessJobAsync runs.
StageItem(j, storeOK) ==
    /\ proc[j].pc = "create"
    /\ LET p == proc[j]
           item == Candidate(p)
           id == p.resolved[1].ingredient_id
       IN  IF storeOK /\ ~CtxDone(p.elapsed)
           THEN /\ staged_items' = CreateStagedItem(
                      [job_id |-> j, ingredient_id |-> id,
                       raw_text |-> item.raw_text, quantity |-> item.quantity,
                       unit |-> item.unit, confidence |-> item.confidence,
                       needs_review |-> NeedsReview(item.confidence, id = Null)])
                /\ proc' = [proc EXCEPT ![j] = [p EXCEPT !.i = p.i + 1,
                                                         !.resolved = <<>>,
                                                         !.pc = AfterItem(p)]]
                /\ UNCHANGED ingestion_jobs
           ELSE /\ staged_items' = staged_items
                /\ ingestion_jobs' = MarkFailed(j, p.elapsed)
                /\ proc' = [proc EXCEPT ![j] = Returned([p EXCEPT !.createErr = TRUE],
                                                        p.elapsed)]
    /\ UNCHANGED <<pantry_items, next_pantry_id, conf, resp, audit, nRequests,
                   reply, calls, request_ctx>>

\* Variant of SetStaged that also commits a resolved staged item to the
\* pantry.
SetStaged_Commit(j) ==
    /\ proc[j].pc = "setStaged"
    /\ ingestion_jobs' = IF CtxDone(proc[j].elapsed)
                         THEN MarkFailed(j, proc[j].elapsed)
                         ELSE UpdateIngestionJobStatus(j, "staged")
    /\ proc' = [proc EXCEPT ![j] = Returned(@, proc[j].elapsed)]
    /\ LET rows == staged_items[j]
           resolved == { k \in 1..Len(rows) : rows[k].ingredient_id # Null }
       IN  IF resolved = {}
           THEN UNCHANGED <<pantry_items, next_pantry_id>>
           ELSE LET s == rows[CHOOSE k \in resolved : TRUE]
                IN  /\ pantry_items' =
                          UpsertPantryItem(pantry_items, next_pantry_id,
                                           s.ingredient_id, s.quantity, s.unit, Null)
                    /\ next_pantry_id' = next_pantry_id + 1
    /\ UNCHANGED <<staged_items, conf, resp, audit, nRequests, reply, calls,
                   request_ctx>>

\* Variant of SetStaged that marks a job failed when no staged item was
\* written for it.
SetStaged_NeedsItems(j) ==
    /\ proc[j].pc = "setStaged"
    /\ ingestion_jobs' = IF CtxDone(proc[j].elapsed) \/ Len(staged_items[j]) = 0
                         THEN MarkFailed(j, proc[j].elapsed)
                         ELSE UpdateIngestionJobStatus(j, "staged")
    /\ proc' = [proc EXCEPT ![j] = Returned(@, proc[j].elapsed)]
    /\ UNCHANGED <<staged_items, pantry_items, next_pantry_id,
                   conf, resp, audit, nRequests, reply, calls, request_ctx>>

\* processJob's final UpdateIngestionJobStatus(staged); when it fails its
\* error is returned and the error branch of ProcessJobAsync runs.
SetStaged(j) ==
    /\ proc[j].pc = "setStaged"
    /\ ingestion_jobs' = IF CtxDone(proc[j].elapsed)
                         THEN MarkFailed(j, proc[j].elapsed)
                         ELSE UpdateIngestionJobStatus(j, "staged")
    /\ proc' = [proc EXCEPT ![j] = Returned(@, proc[j].elapsed)]
    /\ UNCHANGED <<staged_items, pantry_items, next_pantry_id,
                   conf, resp, audit, nRequests, reply, calls, request_ctx>>

\* The context of the request that submitted job j is done: the client went
\* away, or the handler returned.  ProcessJobAsync was given no context of
\* the request; its own derives from context.Background().
RequestDone(j) ==
    /\ ~request_ctx[j]
    /\ request_ctx' = [request_ctx EXCEPT ![j] = TRUE]
    /\ UNCHANGED <<ingestion_jobs, staged_items, pantry_items, next_pantry_id,
                   proc, conf, resp, audit, nRequests, reply, calls>>

----------------------------------------------------------------------------
(* POST /pantry/ingest/{job_id}/confirm *)

\* Variants of the status check: one rejects only confirmed jobs, one also
\* lets confirmed jobs through.
ConfirmAllowed_Unconfirmed(status) == status # "confirmed"

ConfirmAllowed_Reconfirm(status) == status \in {"staged", "confirmed"}

\* The status check of ConfirmJob.
ConfirmAllowed(status) == status = "staged"

\* overrideMap[id]: the last override of the list with that staged_item_id.
HasOverride(overrides, id) ==
    \E k \in 1..Len(overrides) : overrides[k].staged_item_id = id

\* Variant of OverrideFor that keeps the first override of the list with that
\* staged_item_id.
OverrideFor_First(overrides, id) ==
    LET ks == { k \in 1..Len(overrides) : overrides[k].staged_item_id = id }
    IN  overrides[CHOOSE k \in ks : \A m \in ks : k <= m]

OverrideFor(overrides, id) ==
    LET ks == { k \in 1..Len(overrides) : overrides[k].staged_item_id = id }
    IN  overrides[CHOOSE k \in ks : \A m \in ks : m <= k]

\* Variant of EffectiveIngredientID that ignores the override.
EffectiveIngredientID_StagedOnly(item, overrides) == item.ingredient_id

\* The values ConfirmJob upserts for a staged item.
EffectiveIngredientID(item, overrides) ==
    IF HasOverride(overrides, item.id)
       /\ OverrideFor(overrides, item.id).ingredient_id # Null
    THEN OverrideFor(overrides, item.id).ingredient_id
    ELSE item.ingredient_id

\* Variant of EffectiveQuantity that takes the override's quantity only when
\* it is positive.
EffectiveQuantity_Positive(item, overrides) ==
    IF HasOverride(overrides, item.id)
       /\ OverrideFor(overrides, item.id).quantity # <<>>
       /\ OverrideFor(overrides, item.id).quantity[1] > 0
    THEN OverrideFor(overrides, item.id).quantity[1]
    ELSE item.quantity

\* Variant of EffectiveQuantity that takes the quantity of the last override
\* of the list, whichever staged item it names.
EffectiveQuantity_AnyOverride(item, overrides) ==
    IF Len(overrides) > 0 /\ overrides[Len(overrides)].quantity # <<>>
    THEN overrides[Len(overrides)].quantity[1]
    ELSE item.quantity

EffectiveQuantity(item, overrides) ==
    IF HasOverride(overrides, item.id)
       /\ OverrideFor(overrides, item.id).quantity # <<>>
    THEN OverrideFor(overrides, item.id).quantity[1]
    ELSE item.quantity

\* Variant of EffectiveUnit that takes the override's unit only when the
\* override also carries a quantity.
EffectiveUnit_WithQuantity(item, overrides) ==
    IF HasOverride(overrides, item.id)
       /\ OverrideFor(overrides, item.id).quantity # <<>>
       /\ OverrideFor(overrides, item.id).unit # Null
    THEN OverrideFor(overrides, item.id).unit
    ELSE item.unit

EffectiveUnit(item, overrides) ==
    IF HasOverride(overrides, item.id)
       /\ OverrideFor(overrides, item.id).unit # Null
    THEN OverrideFor(overrides, item.id).unit
    ELSE item.unit

\* A ConfirmJob call: its arguments and locals, and (writes, skipped) the
\* upserts it made and the staged items it skipped so far.
NewConfirm(job_id, overrides, staged) ==
    [job |-> job_id, overrides |-> overrides, staged |-> staged, i |-> 1,
     pc |-> IF Len(staged) = 0 THEN "setConfirmed" ELSE "loop",
     writes |-> <<>>, skipped |-> {}]

\* What ConfirmJob returns to handleConfirmJob.
Response(job_id, err) == [job |-> job_id, err |-> err]

\* Variant of ConfirmStatusCode without the errors.Is(err, sql.ErrNoRows)
\* branch.
ConfirmStatusCode_NoNotFound(err) == IF err = NoError THEN 204 ELSE 422

\* The status code handleConfirmJob answers for what ConfirmJob returned.
ConfirmStatusCode(err) ==
    IF err = NoError THEN 204
    ELSE IF err = ErrNoRows THEN 404
    ELSE 422

Remove(seq, c) == [k \in 1..(Len(seq) - 1) |-> IF k < c THEN seq[k] ELSE seq[k + 1]]

\* Variant of ConfirmBegin that has the dictionary resolve the staged items
\* again before the loop.
ConfirmBegin_Resolve(job_id, overrides) ==
    /\ nRequests' = [nRequests EXCEPT !.confirm = @ + 1]
    /\ IF job_id \notin DOMAIN ingestion_jobs
       THEN /\ resp' = Response(job_id, ErrNoRows)
            /\ UNCHANGED <<conf, audit, calls>>
       ELSE LET status == ingestion_jobs[job_id].status
            IN  IF ~ConfirmAllowed(status)
                THEN /\ resp' = Response(job_id, ErrNotStaged(status))
                     /\ UNCHANGED <<conf, audit, calls>>
                ELSE /\ \E staged \in ListStagedItemsByJob(job_id) :
                           conf' = Append(conf, NewConfirm(job_id, overrides, staged))
                     /\ audit' = [audit EXCEPT ![job_id].passed = @ + 1]
                     /\ calls' = [calls EXCEPT
                                     !.dictionary = @ + Len(staged_items[job_id])]
                     /\ UNCHANGED resp
    /\ UNCHANGED <<ingestion_jobs, staged_items, pantry_items, next_pantry_id,
                   proc, reply, request_ctx>>

\* handleConfirmJob up to the loop of ConfirmJob: GetIngestionJob, the
\* status check, ListStagedItemsByJob and the override map.
ConfirmBegin(job_id, overrides) ==
    /\ nRequests' = [nRequests EXCEPT !.confirm = @ + 1]
    /\ IF job_id \notin DOMAIN ingestion_jobs
       THEN /\ resp' = Response(job_id, ErrNoRows)
            /\ UNCHANGED <<conf, audit>>
       ELSE LET status == ingestion_jobs[job_id].status
            IN  IF ~ConfirmAllowed(status)
                THEN /\ resp' = Response(job_id, ErrNotStaged(status))
                     /\ UNCHANGED <<conf, audit>>
                ELSE /\ \E staged \in ListStagedItemsByJob(job_id) :
                           conf' = Append(conf, NewConfirm(job_id, overrides, staged))
                     /\ audit' = [audit EXCEPT ![job_id].passed = @ + 1]
                     /\ UNCHANGED resp
    /\ UNCHANGED <<ingestion_jobs, staged_items, pantry_items, next_pantry_id,
                   proc, reply, calls, request_ctx>>

\* Variant of AfterStaged that leaves the loop at an item without ingredient
\* id instead of continuing with the next one.
AfterStaged_BreakOnSkip(r) ==
    IF EffectiveIngredientID(r.staged[r.i], r.overrides) = Null
       \/ r.i >= Len(r.staged)
    THEN "setConfirmed" ELSE "loop"

\* Where the loop over staged goes after item i.
AfterStaged(r) == IF r.i >= Len(r.staged) THEN "setConfirmed" ELSE "loop"

\* Variant of ConfirmItem that goes on with the next staged item after an
\* upsert error.
ConfirmItem_ContinueOnError(c, storeOK) ==
    /\ conf[c].pc = "loop"
    /\ LET r == conf[c]
           item == r.staged[r.i]
           ingredientID == EffectiveIngredientID(item, r.overrides)
           quantity == EffectiveQuantity(item, r.overrides)
           unit == EffectiveUnit(item, r.overrides)
       IN  IF ingredientID = Null
           THEN /\ conf' = [conf EXCEPT ![c].i = r.i + 1,
                                        ![c].skipped = @ \cup {item.id},
                                        ![c].pc = AfterStaged(r)]
                /\ UNCHANGED <<pantry_items, next_pantry_id, resp, calls>>
           ELSE IF storeOK
           THEN /\ pantry_items' = UpsertPantryItem(pantry_items, next_pantry_id,
                                                    ingredientID, quantity, unit, Null)
                /\ next_pantry_id' =
                      IF \E row \in pantry_items : row.ingredient_id = ingredientID
                      THEN next_pantry_id ELSE next_pantry_id + 1
                /\ conf' = [conf EXCEPT
                      ![c].writes = Append(@, [staged_item_id |-> item.id,
                                               ingredient_id |-> ingredientID,
                                               quantity |-> quantity,
                                               unit |-> unit,
                                               expires_at |-> Null]),
                      ![c].i = r.i + 1,
                      ![c].pc = AfterStaged(r)]
                /\ \E pubErr \in BOOLEAN :
                      calls' = PublishPantryUpdated(
                                  calls,
                                  <<UpsertedID(pantry_items, next_pantry_id,
                                               ingredientID)>>,
                                  pubErr)
                /\ UNCHANGED resp
           ELSE /\ conf' = [conf EXCEPT ![c].i = r.i + 1,
                                        ![c].pc = AfterStaged(r)]
                /\ UNCHANGED <<pantry_items, next_pantry_id, resp, calls>>
    /\ UNCHANGED <<ingestion_jobs, staged_items, proc, audit, nRequests, reply,
                   request_ctx>>

\* Variant of ConfirmItem that stores the values it upserts in the staged
\* item (UpdateStagedItem).
ConfirmItem_PersistOverride(c, storeOK) ==
    /\ conf[c].pc = "loop"
    /\ LET r == conf[c]
           item == r.staged[r.i]
           ingredientID == EffectiveIngredientID(item, r.overrides)
           quantity == EffectiveQuantity(item, r.overrides)
           unit == EffectiveUnit(item, r.overrides)
       IN  IF ingredientID = Null
           THEN /\ conf' = [conf EXCEPT ![c].i = r.i + 1,
                                        ![c].skipped = @ \cup {item.id},
                                        ![c].pc = AfterStaged(r)]
                /\ UNCHANGED <<pantry_items, next_pantry_id, resp, calls,
                               staged_items>>
           ELSE IF storeOK
           THEN /\ pantry_items' = UpsertPantryItem(pantry_items, next_pantry_id,
                                                    ingredientID, quantity, unit, Null)
                /\ next_pantry_id' =
                      IF \E row \in pantry_items : row.ingredient_id = ingredientID
                      THEN next_pantry_id ELSE next_pantry_id + 1
                /\ staged_items' =
                      [staged_items EXCEPT ![r.job] =
                          [k \in 1..Len(@) |->
                              IF @[k].id = item.id
                              THEN [@[k] EXCEPT !.ingredient_id = ingredientID,
                                                !.quantity = quantity,
                                                !.unit = unit]
                              ELSE @[k]]]
                /\ conf' = [conf EXCEPT
                      ![c].writes = Append(@, [staged_item_id |-> item.id,
                                               ingredient_id |-> ingredientID,
                                               quantity |-> quantity,
                                               unit |-> unit,
                                               expires_at |-> Null]),
                      ![c].i = r.i + 1,
                      ![c].pc = AfterStaged(r)]
                /\ \E pubErr \in BOOLEAN :
                      calls' = PublishPantryUpdated(
                                  calls,
                                  <<UpsertedID(pantry_items, next_pantry_id,
                                               ingredientID)>>,
                                  pubErr)
                /\ UNCHANGED resp
           ELSE /\ conf' = Remove(conf, c)
                /\ resp' = Response(r.job, ErrUpsert)
                /\ UNCHANGED <<pantry_items, next_pantry_id, calls, staged_items>>
    /\ UNCHANGED <<ingestion_jobs, proc, audit, nRequests, reply, request_ctx>>

\* One iteration of the loop: skip the item when no ingredient id is
\* resolved, else pantry.UpsertItem; an upsert error makes ConfirmJob return.
ConfirmItem(c, storeOK) ==
    /\ conf[c].pc = "loop"
    /\ LET r == conf[c]
           item == r.staged[r.i]
           ingredientID == EffectiveIngredientID(item, r.overrides)
           quantity == EffectiveQuantity(item, r.overrides)
           unit == EffectiveUnit(item, r.overrides)
       IN  IF ingredientID = Null
           THEN /\ conf' = [conf EXCEPT ![c].i = r.i + 1,
                                        ![c].skipped = @ \cup {item.id},
                                        ![c].pc = AfterStaged(r)]
                /\ UNCHANGED <<pantry_items, next_pantry_id, resp, calls>>
           ELSE IF storeOK
           THEN /\ pantry_items' = UpsertPantryItem(pantry_items, next_pantry_id,
                                                    ingredientID, quantity, unit, Null)
                /\ next_pantry_id' =
                      IF \E row \in pantry_items : row.ingredient_id = ingredientID
                      THEN next_pantry_id ELSE next_pantry_id + 1
                /\ conf' = [conf EXCEPT
                      ![c].writes = Append(@, [staged_item_id |-> item.id,
                                               ingredient_id |-> ingredientID,
                                               quantity |-> quantity,
                                               unit |-> unit,
                                               expires_at |-> Null]),
                      ![c].i = r.i + 1,
                      ![c].pc = AfterStaged(r)]
                /\ \E pubErr \in BOOLEAN :
                      calls' = PublishPantryUpdated(
                                  calls,
                                  <<UpsertedID(pantry_items, next_pantry_id,
                                               ingredientID)>>,
                                  pubErr)
                /\ UNCHANGED resp
           ELSE /\ conf' = Remove(conf, c)
                /\ resp' = Response(r.job, ErrUpsert)
                /\ UNCHANGED <<pantry_items, next_pantry_id, calls>>
    /\ UNCHANGED <<ingestion_jobs, staged_items, proc, audit, nRequests, reply,
                   request_ctx>>

\* Variant of ConfirmSetStatus that deletes the job's staged items once they
\* are committed.
ConfirmSetStatus_Cleanup(c) ==
    /\ conf[c].pc = "setConfirmed"
    /\ ingestion_jobs' = UpdateIngestionJobStatus(conf[c].job, "confirmed")
    /\ staged_items' = [staged_items EXCEPT ![conf[c].job] = <<>>]
    /\ audit' = [audit EXCEPT ![conf[c].job].confirmed = @ + 1]
    /\ conf' = Remove(conf, c)
    /\ resp' = Response(conf[c].job, NoError)
    /\ UNCHANGED <<pantry_items, next_pantry_id, proc, nRequests,
                   reply, calls, request_ctx>>

\* The final UpdateIngestionJobStatus(confirmed).
ConfirmSetStatus(c) ==
    /\ conf[c].pc = "setConfirmed"
    /\ ingestion_jobs' = UpdateIngestionJobStatus(conf[c].job, "confirmed")
    /\ audit' = [audit EXCEPT ![conf[c].job].confirmed = @ + 1]
    /\ conf' = Remove(conf, c)
    /\ resp' = Response(conf[c].job, NoError)
    /\ UNCHANGED <<staged_items, pantry_items, next_pantry_id, proc, nRequests,
                   reply, calls, request_ctx>>

----------------------------------------------------------------------------
(* POST /pantry/items *)

\* Request bodies of the add-item endpoint: name, ingredient_id, quantity,
\* unit, expires_at.
AddItemRequests ==
    [name : {"", "flour"}, ingredient_id : {"", "not-a-uuid", "ing1"},
     quantity : {0, 5}, unit : {"", "g"},
     expires_at : {Null, "2027-01-01T00:00:00Z"}]

\* Variant of IsUUID that accepts every string.
IsUUID_Any(str) == TRUE

\* uuid.Parse of the request's ingredient_id.
IsUUID(str) == str \in Ingredients

\* time.Parse(time.RFC3339, *req.ExpiresAt) succeeds.
IsRFC3339(str) == str = "2027-01-01T00:00:00Z"

\* handleAddItem: validate quantity and unit, take the ingredient id from
\* the request or resolve the name with the dictionary (resolved is its
\* answer, Null when it errors), parse expires_at, then pantry.UpsertItem
\* (storeOK is whether the upsert succeeds) and answer 201 with the row.
handleAddItem(req, resolved, storeOK) ==
    LET byName == req.ingredient_id = "" /\ req.name # ""
        afterResolve == IF byName THEN [calls EXCEPT !.dictionary = @ + 1]
                                  ELSE calls
        Reject(code, error, c) ==
            /\ reply' = Reply("handleAddItem", code, error, <<>>, <<>>)
            /\ calls' = c
            /\ UNCHANGED <<pantry_items, next_pantry_id>>
        ingredientID == IF req.ingredient_id # "" THEN req.ingredient_id
                                                  ELSE resolved
    IN  /\ nRequests' = [nRequests EXCEPT !.add = @ + 1]
        /\ IF req.quantity <= 0
           THEN Reject(400, "quantity must be positive", calls)
           ELSE IF req.unit = ""
           THEN Reject(400, "unit is required", calls)
           ELSE IF req.ingredient_id # "" /\ ~IsUUID(req.ingredient_id)
           THEN Reject(400, "invalid ingredient_id", calls)
           ELSE IF byName /\ resolved = Null
           THEN Reject(502, "failed to resolve ingredient", afterResolve)
           ELSE IF req.ingredient_id = "" /\ req.name = ""
           THEN Reject(400, "name or ingredient_id is required", calls)
           ELSE IF req.expires_at # Null /\ ~IsRFC3339(req.expires_at)
           THEN Reject(400, "expires_at must be RFC3339", afterResolve)
           ELSE IF ~storeOK
           THEN Reject(500, "failed to save pantry item", afterResolve)
           ELSE /\ pantry_items' =
                      UpsertPantryItem(pantry_items, next_pantry_id, ingredientID,
                                       req.quantity, req.unit, req.expires_at)
                /\ next_pantry_id' =
                      IF \E row \in pantry_items : row.ingredient_id = ingredientID
                      THEN next_pantry_id ELSE next_pantry_id + 1
                /\ \E pubErr \in BOOLEAN :
                      calls' = PublishPantryUpdated(
                                  afterResolve,
                                  <<UpsertedID(pantry_items, next_pantry_id,
                                               ingredientID)>>,
                                  pubErr)
                /\ reply' =
                      Reply("handleAddItem", 201, "",
                            <<CHOOSE row \in pantry_items' :
                                  row.ingredient_id = ingredientID>>,
                            <<[ingredient_id |-> ingredientID,
                               quantity |-> req.quantity, unit |-> req.unit,
                               expires_at |-> req.expires_at]>>)
        /\ UNCHANGED <<ingestion_jobs, staged_items, proc, conf, resp, audit,
                       request_ctx>>

----------------------------------------------------------------------------
(* DELETE /pantry/items/{id} and DELETE /pantry/reset *)

\* The {id} path parameters of delete requests.
ItemIDParams == {"not-a-uuid", "1", "2", "3"}

\* uuid.Parse of the path parameter: <<id>>, or <<>> on a parse error.
ParseItemID(str) ==
    CASE str = "1" -> <<1>>
      [] str = "2" -> <<2>>
      [] str = "3" -> <<3>>
      [] OTHER -> <<>>

\* Variant of DeletePantryItem that keeps the row and sets its quantity to 0.
DeletePantryItem_ZeroQuantity(rows, id) ==
    { IF r.id = id THEN [r EXCEPT !.quantity = 0] ELSE r : r \in rows }

\* DeletePantryItem: DELETE FROM pantry_items WHERE id.
DeletePantryItem(rows, id) == { r \in rows : r.id # id }

\* DeleteAllPantryItems: DELETE FROM pantry_items.
DeleteAllPantryItems(rows) == {}

\* handleDeleteItem: parse the id, pantry.DeleteItem, answer 204.
handleDeleteItem(param, storeOK) ==
    /\ nRequests' = [nRequests EXCEPT !.delete = @ + 1]
    /\ IF ParseItemID(param) = <<>>
       THEN /\ reply' = Reply("handleDeleteItem", 400, "invalid id", <<>>, <<>>)
            /\ UNCHANGED <<pantry_items, calls>>
       ELSE IF ~storeOK
       THEN /\ reply' = Reply("handleDeleteItem", 500, "failed to delete item",
                              <<>>, <<>>)
            /\ UNCHANGED <<pantry_items, calls>>
       ELSE /\ pantry_items' = DeletePantryItem(pantry_items, ParseItemID(param)[1])
            /\ \E pubErr \in BOOLEAN :
                  calls' = PublishPantryUpdated(calls, ParseItemID(param), pubErr)
            /\ reply' = Reply("handleDeleteItem", 204, "", <<>>, <<>>)
    /\ UNCHANGED <<ingestion_jobs, staged_items, next_pantry_id, proc, conf, resp,
                   audit, request_ctx>>

\* The confirm query parameters of reset requests.
ResetParams == {"", "true"}

\* Variant of handleReset without the check of the confirm parameter.
handleReset_NoConfirmCheck(confirm, storeOK) ==
    /\ nRequests' = [nRequests EXCEPT !.reset = @ + 1]
    /\ IF ~storeOK
       THEN /\ reply' = Reply("handleReset", 500, "failed to reset pantry",
                              <<>>, <<>>)
            /\ UNCHANGED <<pantry_items, calls>>
       ELSE /\ pantry_items' = DeleteAllPantryItems(pantry_items)
            /\ \E pubErr \in BOOLEAN :
                  calls' = PublishPantryUpdated(calls, <<>>, pubErr)
            /\ reply' = Reply("handleReset", 204, "", <<>>, <<>>)
    /\ UNCHANGED <<ingestion_jobs, staged_items, next_pantry_id, proc, conf, resp,
                   audit, request_ctx>>

\* Variant of handleReset whose reset also empties the staged items of
\* every job.
handleReset_ClearStaged(confirm, storeOK) ==
    /\ nRequests' = [nRequests EXCEPT !.reset = @ + 1]
    /\ IF confirm # "true"
       THEN /\ reply' = Reply("handleReset", 400,
                              "pass ?confirm=true to clear all pantry items",
                              <<>>, <<>>)
            /\ UNCHANGED <<pantry_items, calls, staged_items>>
       ELSE IF ~storeOK
       THEN /\ reply' = Reply("handleReset", 500, "failed to reset pantry",
                              <<>>, <<>>)
            /\ UNCHANGED <<pantry_items, calls, staged_items>>
       ELSE /\ pantry_items' = DeleteAllPantryItems(pantry_items)
            /\ staged_items' = [j \in DOMAIN staged_items |-> <<>>]
            /\ \E pubErr \in BOOLEAN :
                  calls' = PublishPantryUpdated(calls, <<>>, pubErr)
            /\ reply' = Reply("handleReset", 204, "", <<>>, <<>>)
    /\ UNCHANGED <<ingestion_jobs, next_pantry_id, proc, conf, resp,
                   audit, request_ctx>>

\* handleReset: require ?confirm=true, pantry.Reset, answer 204.
handleReset(confirm, storeOK) ==
    /\ nRequests' = [nRequests EXCEPT !.reset = @ + 1]
    /\ IF confirm # "true"
       THEN /\ reply' = Reply("handleReset", 400,
                              "pass ?confirm=true to clear all pantry items",
                              <<>>, <<>>)
            /\ UNCHANGED <<pantry_items, calls>>
       ELSE IF ~storeOK
       THEN /\ reply' = Reply("handleReset", 500, "failed to reset pantry",
                              <<>>, <<>>)
            /\ UNCHANGED <<pantry_items, calls>>
       ELSE /\ pantry_items' = DeleteAllPantryItems(pantry_items)
            /\ \E pubErr \in BOOLEAN :
                  calls' = PublishPantryUpdated(calls, <<>>, pubErr)
            /\ reply' = Reply("handleReset", 204, "", <<>>, <<>>)
    /\ UNCHANGED <<ingestion_jobs, staged_items, next_pantry_id, proc, conf, resp,
                   audit, request_ctx>>

----------------------------------------------------------------------------
(* GET /pantry/ingest/{job_id} and GET /pantry *)

\* ListPantryItems: the rows ORDER BY added_at, which is the order of their
\* ids: a row gets both when it is inserted and keeps them when it is
\* updated.
ListPantryItems(rows) ==
    CHOOSE seq \in [1..Cardinality(rows) -> rows] :
        \A a, b \in 1..Cardinality(rows) : a < b => seq[a].id < seq[b].id

\* Variant of handleGetJob that shows the staged items of staged and
\* confirmed jobs only.
handleGetJob_HideUnstaged(job_id, storeOK) ==
    /\ IF job_id \notin DOMAIN ingestion_jobs
       THEN reply' = Reply("handleGetJob", 404, "job not found", <<>>, <<>>)
       ELSE IF ~storeOK
       THEN reply' = Reply("handleGetJob", 500, "failed to get job", <<>>, <<>>)
       ELSE \E items \in ListStagedItemsByJob(job_id) :
               reply' = Reply("handleGetJob", 200, "",
                              <<[job_id |-> job_id,
                                 status |-> ingestion_jobs[job_id].status,
                                 items |-> IF ingestion_jobs[job_id].status
                                                \in {"staged", "confirmed"}
                                           THEN items ELSE <<>>]>>, <<>>)
    /\ UNCHANGED <<ingestion_jobs, staged_items, pantry_items, next_pantry_id,
                   proc, conf, resp, audit, nRequests, calls, request_ctx>>

\* handleGetJob: GetJob, ListStagedItems, answer 200 with the job's id, its
\* status and its staged items (storeOK is whether the reads succeed).  The
\* handler writes nothing; its two reads are taken as one step.
handleGetJob(job_id, storeOK) ==
    /\ IF job_id \notin DOMAIN ingestion_jobs
       THEN reply' = Reply("handleGetJob", 404, "job not found", <<>>, <<>>)
       ELSE IF ~storeOK
       THEN reply' = Reply("handleGetJob", 500, "failed to get job", <<>>, <<>>)
       ELSE \E items \in ListStagedItemsByJob(job_id) :
               reply' = Reply("handleGetJob", 200, "",
                              <<[job_id |-> job_id,
                                 status |-> ingestion_jobs[job_id].status,
                                 items |-> items]>>, <<>>)
    /\ UNCHANGED <<ingestion_jobs, staged_items, pantry_items, next_pantry_id,
                   proc, conf, resp, audit, nRequests, calls, request_ctx>>

\* handleListPantry: pantry.ListItems, answer 200 with the rows.
handleListPantry(storeOK) ==
    /\ IF ~storeOK
       THEN reply' = Reply("handleListPantry", 500, "failed to list pantry items",
                           <<>>, <<>>)
       ELSE reply' = Reply("handleListPantry", 200, "",
                           <<[items |-> ListPantryItems(pantry_items)]>>, <<>>)
    /\ UNCHANGED <<ingestion_jobs, staged_items, pantry_items, next_pantry_id,
                   proc, conf, resp, audit, nRequests, calls, request_ctx>>

----------------------------------------------------------------------------
(* Specifications *)

\* Spec: job creation, processing, confirm requests and direct adds
\* interleave freely.  The extraction returns flour and cilantro, the
\* dictionary resolves to ing1 or fails, and an override replaces ingredient
\* and quantity of one staged item.
SpecResponses == SeqsUpTo({Flour, Cilantro}, MaxItems)
SpecIngredients == {"ing1", Null}
SpecOverrides ==
    {<<>>} \cup
    { <<[staged_item_id |-> k, ingredient_id |-> "ing2",
         quantity |-> <<3>>, unit |-> Null]>> : k \in StagedItemIDs }

Next ==
    \/ /\ Len(ingestion_jobs) < MaxJobs
       /\ \E type \in JobTypes, content \in Contents, createOK \in BOOLEAN :
             handleIngest(type, content, createOK)
    \/ \E j \in DOMAIN proc, items \in SpecResponses, d \in Durations :
          ExtractOK(j, items, d)
    \/ \E j \in DOMAIN proc, d \in Durations : ExtractFail(j, d)
    \/ \E j \in DOMAIN proc, id \in SpecIngredients, d \in Durations,
          storeOK \in BOOLEAN : ProcessItem(j, id, d, storeOK)
    \/ \E j \in DOMAIN proc : SetStaged(j)
    \/ /\ nRequests.confirm < MaxConfirms
       /\ \E job_id \in 1..MaxJobs, overrides \in SpecOverrides :
             ConfirmBegin(job_id, overrides)
    \/ \E c \in DOMAIN conf, storeOK \in BOOLEAN : ConfirmItem(c, storeOK)
    \/ \E c \in DOMAIN conf : ConfirmSetStatus(c)
    \/ /\ nRequests.add < MaxAdds
       /\ \E req \in AddItemRequests, resolved \in SpecIngredients,
             storeOK \in BOOLEAN : handleAddItem(req, resolved, storeOK)

Spec == Init /\ [][Next]_vars

\* DataSpec: one confirm request at a time, with every extraction response,
\* every dictionary answer and every override list within the bounds.
DataResponses == SeqsUpTo(ExtractedItems, MaxItems)
DataIngredients == Ingredients \cup {Null}
DataOverrides == SeqsUpTo(OverrideItem(StagedItemIDs), MaxOverrides)

DataNext ==
    \/ /\ Len(ingestion_jobs) < MaxJobs
       /\ \E type \in JobTypes, content \in Contents, createOK \in BOOLEAN :
             handleIngest(type, content, createOK)
    \/ \E j \in DOMAIN proc, items \in DataResponses, d \in Durations :
          ExtractOK(j, items, d)
    \/ \E j \in DOMAIN proc, d \in Durations : ExtractFail(j, d)
    \/ \E j \in DOMAIN proc, id \in DataIngredients, d \in Durations,
          storeOK \in BOOLEAN : ProcessItem(j, id, d, storeOK)
    \/ \E j \in DOMAIN proc : SetStaged(j)
    \/ /\ nRequests.confirm < MaxConfirms
       /\ Len(conf) = 0
       /\ \E job_id \in 1..MaxJobs, overrides \in DataOverrides :
             ConfirmBegin(job_id, overrides)
    \/ \E c \in DOMAIN conf, storeOK \in BOOLEAN : ConfirmItem(c, storeOK)
    \/ \E c \in DOMAIN conf : ConfirmSetStatus(c)

DataSpec == Init /\ [][DataNext]_vars

\* PantrySpec: direct adds, deletes and resets of the pantry interleave with
\* the processing and the confirm requests of a job whose one candidate
\* resolves to ing1; an add names ing1 or has its name resolved to ing2.
PantryRequests ==
    [name : {"", "flour"}, ingredient_id : {"", "ing1"}, quantity : {5, 7},
     unit : {"g"}, expires_at : {Null}]
PantryResponses == {<<Flour>>}
PantryResolved == {"ing2", Null}

PantryNext ==
    \/ /\ Len(ingestion_jobs) < MaxJobs
       /\ \E type \in JobTypes, content \in Contents, createOK \in BOOLEAN :
             handleIngest(type, content, createOK)
    \/ \E j \in DOMAIN proc, items \in PantryResponses : ExtractOK(j, items, 0)
    \/ \E j \in DOMAIN proc : ExtractFail(j, 0)
    \/ \E j \in DOMAIN proc : ProcessItem(j, "ing1", 0, TRUE)
    \/ \E j \in DOMAIN proc : SetStaged(j)
    \/ /\ nRequests.confirm < MaxConfirms
       /\ \E job_id \in 1..MaxJobs : ConfirmBegin(job_id, <<>>)
    \/ \E c \in DOMAIN conf, storeOK \in BOOLEAN : ConfirmItem(c, storeOK)
    \/ \E c \in DOMAIN conf : ConfirmSetStatus(c)
    \/ /\ nRequests.add < MaxPantryAdds
       /\ \E req \in PantryRequests, resolved \in PantryResolved,
             storeOK \in BOOLEAN : handleAddItem(req, resolved, storeOK)
    \/ /\ nRequests.delete < MaxDeletes
       /\ \E param \in ItemIDParams, storeOK \in BOOLEAN :
             handleDeleteItem(param, storeOK)
    \/ /\ nRequests.reset < MaxResets
       /\ \E confirm \in ResetParams, storeOK \in BOOLEAN :
             handleReset(confirm, storeOK)

PantrySpec == Init /\ [][PantryNext]_vars

\* RaceSpec: two jobs, one extracting flour and one cilantro, both resolved
\* to ing1, are confirmed while a direct add for ing1 with an expiration
\* comes in: the confirm calls and the add are writers of the same row.
RaceResponses == {<<Flour>>, <<Cilantro>>}
RaceRequests ==
    [name : {""}, ingredient_id : {"ing1"}, quantity : {5}, unit : {"g"},
     expires_at : {"2027-01-01T00:00:00Z"}]

RaceNext ==
    \/ /\ Len(ingestion_jobs) < MaxRaceJobs
       /\ handleIngest("text_blob", "2 cups flour, 1 lb chicken breast", TRUE)
    \/ \E j \in DOMAIN proc, items \in RaceResponses : ExtractOK(j, items, 0)
    \/ \E j \in DOMAIN proc : ProcessItem(j, "ing1", 0, TRUE)
    \/ \E j \in DOMAIN proc : SetStaged(j)
    \/ /\ nRequests.confirm < MaxConfirms
       /\ \E job_id \in DOMAIN ingestion_jobs : ConfirmBegin(job_id, <<>>)
    \/ \E c \in DOMAIN conf : ConfirmItem(c, TRUE)
    \/ \E c \in DOMAIN conf : ConfirmSetStatus(c)
    \/ /\ nRequests.add < MaxAdds
       /\ \E req \in RaceRequests : handleAddItem(req, Null, TRUE)

RaceSpec == Init /\ [][RaceNext]_vars

\* CancelSpec: submissions whose request context ends at any moment while
\* the goroutine of the job runs.  The goroutine is scheduled by the Go
\* runtime and each of its HTTP calls returns within the client's timeout,
\* so a goroutine that can take a step eventually takes one.
Processing(j) ==
    \/ \E items \in SpecResponses, d \in Durations : ExtractOK(j, items, d)
    \/ \E d \in Durations : ExtractFail(j, d)
    \/ \E id \in SpecIngredients, d \in Durations, storeOK \in BOOLEAN :
          ProcessItem(j, id, d, storeOK)
    \/ SetStaged(j)

CancelNext ==
    \/ /\ Len(ingestion_jobs) < MaxJobs
       /\ \E type \in JobTypes, content \in Contents, createOK \in BOOLEAN :
             handleIngest(type, content, createOK)
    \/ \E j \in DOMAIN request_ctx : RequestDone(j)
    \/ \E j \in DOMAIN proc, items \in SpecResponses, d \in Durations :
          ExtractOK(j, items, d)
    \/ \E j \in DOMAIN proc, d \in Durations : ExtractFail(j, d)
    \/ \E j \in DOMAIN proc, id \in SpecIngredients, d \in Durations,
          storeOK \in BOOLEAN : ProcessItem(j, id, d, storeOK)
    \/ \E j \in DOMAIN proc : SetStaged(j)

CancelSpec ==
    /\ Init
    /\ [][CancelNext]_vars
    /\ \A j \in 1..MaxJobs : WF_vars(j \in DOMAIN proc /\ Processing(j))

\* AddSpec: one add-item request, with every request body, comes in at any
\* moment of the processing and the confirm of a job whose one candidate
\* resolves to ing1.
AddNext ==
    \/ /\ Len(ingestion_jobs) < MaxJobs
       /\ \E type \in JobTypes :
             handleIngest(type, "2 cups flour, 1 lb chicken breast", TRUE)
    \/ \E j \in DOMAIN proc, items \in PantryResponses : ExtractOK(j, items, 0)
    \/ \E j \in DOMAIN proc : ProcessItem(j, "ing1", 0, TRUE)
    \/ \E j \in DOMAIN proc : SetStaged(j)
    \/ /\ nRequests.confirm < MaxConfirms
       /\ \E job_id \in DOMAIN ingestion_jobs : ConfirmBegin(job_id, <<>>)
    \/ \E c \in DOMAIN conf : ConfirmItem(c, TRUE)
    \/ \E c \in DOMAIN conf : ConfirmSetStatus(c)
    \/ /\ nRequests.add < MaxAdds
       /\ \E req \in AddItemRequests, resolved \in SpecIngredients,
             storeOK \in BOOLEAN : handleAddItem(req, resolved, storeOK)

AddSpec == Init /\ [][AddNext]_vars

\* ReadSpec: every route of the router and the goroutine of a job whose one
\* candidate resolves to ing1: submission, processing, job lookup, confirm,
\* listing, one add, one delete and one reset.
ReadNext ==
    \/ /\ Len(ingestion_jobs) < MaxJobs
       /\ \E type \in JobTypes, content \in Contents, createOK \in BOOLEAN :
             handleIngest(type, content, createOK)
    \/ \E j \in DOMAIN proc, items \in PantryResponses : ExtractOK(j, items, 0)
    \/ \E j \in DOMAIN proc : ExtractFail(j, 0)
    \/ \E j \in DOMAIN proc, storeOK \in BOOLEAN : ProcessItem(j, "ing1", 0, storeOK)
    \/ \E j \in DOMAIN proc : SetStaged(j)
    \/ /\ nRequests.confirm < MaxConfirms
       /\ \E job_id \in 1..MaxJobs : ConfirmBegin(job_id, <<>>)
    \/ \E c \in DOMAIN conf, storeOK \in BOOLEAN : ConfirmItem(c, storeOK)
    \/ \E c \in DOMAIN conf : ConfirmSetStatus(c)
    \/ /\ nRequests.add < MaxAdds
       /\ \E req \in PantryRequests, resolved \in PantryResolved,
             storeOK \in BOOLEAN : handleAddItem(req, resolved, storeOK)
    \/ /\ nRequests.delete < MaxDeletes
       /\ \E param \in ItemIDParams, storeOK \in BOOLEAN :
             handleDeleteItem(param, storeOK)
    \/ /\ nRequests.reset < MaxResets
       /\ \E confirm \in ResetParams, storeOK \in BOOLEAN :
             handleReset(confirm, storeOK)
    \/ \E job_id \in 1..MaxJobs, storeOK \in BOOLEAN : handleGetJob(job_id, storeOK)
    \/ \E storeOK \in BOOLEAN : handleListPantry(storeOK)

ReadSpec == Init /\ [][ReadNext]_vars

\* OrderSpec: the goroutine of a job with the resolve and the write of the
\* staged item as separate steps, every extraction response and every timing
\* within the bounds, and status queries at any moment.
OrderNext ==
    \/ /\ Len(ingestion_jobs) < MaxJobs
       /\ \E type \in JobTypes, content \in Contents, createOK \in BOOLEAN :
             handleIngest(type, content, createOK)
    \/ \E j \in DOMAIN proc, items \in DataResponses, d \in Durations :
          ExtractOK(j, items, d)
    \/ \E j \in DOMAIN proc, d \in Durations : ExtractFail(j, d)
    \/ \E j \in DOMAIN proc, id \in SpecIngredients, d \in Durations :
          ResolveItem(j, id, d)
    \/ \E j \in DOMAIN proc, storeOK \in BOOLEAN : StageItem(j, storeOK)
    \/ \E j \in DOMAIN proc : SetStaged(j)
    \/ \E job_id \in 1..MaxJobs, storeOK \in BOOLEAN : handleGetJob(job_id, storeOK)

OrderSpec == Init /\ [][OrderNext]_vars

\* OverrideSpec: two jobs of one resolved candidate each, so that a staged
\* item of another job exists, and confirm calls, one at a time, with every
\* list of up to MaxDupOverrides overrides, for the staged items of either
\* job.
OverrideLists == SeqsUpTo(OverrideItem(StagedItemIDs), MaxDupOverrides)

OverrideNext ==
    \/ /\ Len(ingestion_jobs) < MaxRaceJobs
       /\ handleIngest("text_blob", "2 cups flour, 1 lb chicken breast", TRUE)
    \/ \E j \in DOMAIN proc, items \in PantryResponses : ExtractOK(j, items, 0)
    \/ \E j \in DOMAIN proc : ProcessItem(j, "ing1", 0, TRUE)
    \/ \E j \in DOMAIN proc : SetStaged(j)
    \/ /\ nRequests.confirm < MaxConfirms
       /\ Len(conf) = 0
       /\ \E job_id \in DOMAIN ingestion_jobs, overrides \in OverrideLists :
             ConfirmBegin(job_id, overrides)
    \/ \E c \in DOMAIN conf : ConfirmItem(c, TRUE)
    \/ \E c \in DOMAIN conf : ConfirmSetStatus(c)

OverrideSpec == Init /\ [][OverrideNext]_vars

\* QuantitySpec: a job whose one candidate has an amount or none, confirm
\* calls whose override may carry the quantity 0 and the empty unit, and
\* add-item requests with and without a positive quantity and a unit.
QuantityResponses == {<<Flour>>, <<Salt>>}
QuantityOverrides ==
    SeqsUpTo([staged_item_id : StagedItemIDs, ingredient_id : {Null},
              quantity : {<<>>, <<0>>, <<3>>}, unit : {Null, "", "oz"}],
             MaxOverrides)
QuantityRequests ==
    [name : {""}, ingredient_id : {"ing2"}, quantity : {0, 5},
     unit : {"", "g"}, expires_at : {Null}]

QuantityNext ==
    \/ /\ Len(ingestion_jobs) < MaxJobs
       /\ handleIngest("text_blob", "2 cups flour, 1 lb chicken breast", TRUE)
    \/ \E j \in DOMAIN proc, items \in QuantityResponses : ExtractOK(j, items, 0)
    \/ \E j \in DOMAIN proc : ProcessItem(j, "ing1", 0, TRUE)
    \/ \E j \in DOMAIN proc : SetStaged(j)
    \/ /\ nRequests.confirm < MaxConfirms
       /\ Len(conf) = 0
       /\ \E job_id \in DOMAIN ingestion_jobs, overrides \in QuantityOverrides :
             ConfirmBegin(job_id, overrides)
    \/ \E c \in DOMAIN conf : ConfirmItem(c, TRUE)
    \/ \E c \in DOMAIN conf : ConfirmSetStatus(c)
    \/ /\ nRequests.add < MaxAdds
       /\ \E req \in QuantityRequests : handleAddItem(req, Null, TRUE)

QuantitySpec == Init /\ [][QuantityNext]_vars

----------------------------------------------------------------------------
(* Properties *)

\* C1: a job's status only ever changes pending -> staged, pending -> failed
\* or staged -> confirmed; no step makes any other change of status.
C1_StatusTransitions ==
    [][\A j \in DOMAIN ingestion_jobs :
          ingestion_jobs'[j].status # ingestion_jobs[j].status
          => <<ingestion_jobs[j].status, ingestion_jobs'[j].status>>
                \in { <<"pending", "staged">>, <<"pending", "failed">>,
                      <<"staged", "confirmed">> }]_vars

\* A job went pending -> staged -> confirmed and a later confirm request for
\* it was answered.
C1_Witness ==
    \E j \in DOMAIN ingestion_jobs :
        /\ ingestion_jobs[j].status = "confirmed"
        /\ proc[j].pc = "done"
        /\ audit[j].confirmed = 1
        /\ nRequests.confirm = 2

\* C2: a ConfirmJob call for a job whose status is not staged returns the
\* error "must be staged to confirm" carrying the job's current status, makes
\* no pantry upsert and leaves the job's status unchanged.
C2_RejectsNonStaged ==
    [][\A j \in DOMAIN ingestion_jobs :
          LET called ==
                  /\ nRequests'.confirm = nRequests.confirm + 1
                  /\ \/ /\ Len(conf') = Len(conf) + 1
                        /\ conf'[Len(conf')].job = j
                     \/ /\ conf' = conf
                        /\ resp'.job = j
          IN  (called /\ ingestion_jobs[j].status # "staged")
              => /\ resp' = [job |-> j,
                             err |-> [msg |-> "must be staged to confirm",
                                      status |-> ingestion_jobs[j].status]]
                 /\ conf' = conf
                 /\ pantry_items' = pantry_items
                 /\ next_pantry_id' = next_pantry_id
                 /\ ingestion_jobs' = ingestion_jobs
                 /\ audit' = audit]_vars

\* A confirm request for a job that is still pending was rejected with the
\* status pending in its error.
C2_Witness ==
    /\ resp.job \in DOMAIN ingestion_jobs
    /\ resp.err.msg = "must be staged to confirm"
    /\ resp.err.status = "pending"
    /\ ingestion_jobs[resp.job].status = "pending"
    /\ pantry_items = {}

\* C3: for every job, at most one ConfirmJob call passes the staged check,
\* commits and writes the status confirmed; the status confirmed is written
\* once.
C3_ConfirmedOnce ==
    \A j \in DOMAIN audit : audit[j].confirmed <= 1

\* C4: a job whose processing goroutine has returned is no longer pending.
C4_LeavesPending ==
    \A j \in DOMAIN proc :
        proc[j].pc = "done" => ingestion_jobs[j].status # "pending"

\* C5: when the extraction fails, the resolver is never called for the job,
\* no staged item is written for it, and its status is failed.
C5_ExtractionFailure ==
    \A j \in DOMAIN proc :
        proc[j].extractErr
        => /\ proc[j].resolves = 0
           /\ staged_items[j] = <<>>
           /\ ingestion_jobs[j].status = "failed"

\* The extraction of a job failed and a confirm request for the job was
\* answered afterwards.
C5_Witness ==
    \E j \in DOMAIN proc :
        /\ proc[j].extractErr
        /\ proc[j].pc = "done"
        /\ resp.job = j
        /\ resp.err.status = "failed"

\* C6: a staged item written after a successful resolve has needs_review
\* equal to (confidence < 0.7), so confidence 0.7 gives false; a staged item
\* written after a failed resolve has needs_review true and no ingredient id.
C6_NeedsReview ==
    \A j \in DOMAIN staged_items :
        \A k \in 1..Len(staged_items[j]) :
            LET s == staged_items[j][k]
            IN  IF s.ingredient_id # Null
                THEN s.needs_review = (s.confidence < 70)
                ELSE s.needs_review = TRUE

\* A job staged a resolved item of confidence 0.7 without review and an
\* unresolved item of confidence 0.95 with review.
C6_Witness ==
    \E j \in DOMAIN staged_items :
        \E k, m \in 1..Len(staged_items[j]) :
            /\ staged_items[j][k].confidence = 70
            /\ staged_items[j][k].ingredient_id # Null
            /\ ~staged_items[j][k].needs_review
            /\ staged_items[j][m].confidence = 95
            /\ staged_items[j][m].ingredient_id = Null
            /\ staged_items[j][m].needs_review

C8_ProcessingKeepsPantry ==
    [][(\E j \in DOMAIN proc : proc'[j] # proc[j])
       => /\ pantry_items' = pantry_items
          /\ next_pantry_id' = next_pantry_id]_vars

\* A goroutine staged its items and is about to write the status while the
\* pantry holds a row.
C8_Witness ==
    \E j \in DOMAIN proc :
        /\ proc[j].pc = "setStaged"
        /\ Len(staged_items[j]) > 0
        /\ pantry_items # {}

\* C9: every upsert a ConfirmJob call makes for a staged item carries, field
\* by field and independently of the other fields, the value of the override
\* for that item when there is one and its field is not null, and the staged
\* item's value otherwise; the pantry row of the ingredient holds the values
\* of the call's latest upsert for it, with no expiration.
C9_EffectiveValues ==
    \A c \in DOMAIN conf :
        LET r == conf[c]
        IN  \A w \in 1..Len(r.writes) :
                LET wr == r.writes[w]
                    item == CHOOSE s \in { r.staged[k] : k \in 1..Len(r.staged) } :
                                s.id = wr.staged_item_id
                    ks == { k \in 1..Len(r.overrides) :
                              r.overrides[k].staged_item_id = item.id }
                    o == r.overrides[CHOOSE k \in ks : \A m \in ks : m <= k]
                IN  /\ wr.ingredient_id =
                          IF ks # {} /\ o.ingredient_id # Null
                          THEN o.ingredient_id ELSE item.ingredient_id
                    /\ wr.quantity =
                          IF ks # {} /\ o.quantity # <<>>
                          THEN o.quantity[1] ELSE item.quantity
                    /\ wr.unit =
                          IF ks # {} /\ o.unit # Null
                          THEN o.unit ELSE item.unit
                    /\ (\A x \in (w + 1)..Len(r.writes) :
                            r.writes[x].ingredient_id # wr.ingredient_id)
                       => \E row \in pantry_items :
                              /\ row.ingredient_id = wr.ingredient_id
                              /\ row.quantity = wr.quantity
                              /\ row.unit = wr.unit
                              /\ row.expires_at = Null

\* A confirm call upserted a resolved staged item whose override supplies
\* only a quantity: the upsert has the override's quantity and the staged
\* unit and ingredient id.
C9_Witness ==
    \E c \in DOMAIN conf :
        \E w \in 1..Len(conf[c].writes), k \in 1..Len(conf[c].overrides),
           n \in 1..Len(conf[c].staged) :
            LET wr == conf[c].writes[w]
                o == conf[c].overrides[k]
                item == conf[c].staged[n]
            IN  /\ o.staged_item_id = wr.staged_item_id
                /\ item.id = wr.staged_item_id
                /\ o.quantity = <<3>>
                /\ o.unit = Null
                /\ o.ingredient_id = Null
                /\ wr.quantity = 3
                /\ wr.unit = item.unit
                /\ wr.ingredient_id = item.ingredient_id
                /\ item.quantity # 3

\* C10: a step of a ConfirmJob call at a staged item that has no ingredient
\* id and no override supplying one changes no pantry row, does not make the
\* call return, and moves the call on to the next staged item, or to the
\* status write after the last one; the status write of a call that has
\* finished its loop sets the job confirmed and the call returns no error.
C10_SkipUnresolved ==
    [][\A c \in DOMAIN conf :
          LET r == conf[c]
              item == r.staged[r.i]
              supplied == \E k \in 1..Len(r.overrides) :
                              /\ r.overrides[k].staged_item_id = item.id
                              /\ r.overrides[k].ingredient_id # Null
          IN  /\ (r.pc = "loop" /\ conf' # conf
                    /\ item.ingredient_id = Null /\ ~supplied)
                 => /\ pantry_items' = pantry_items
                    /\ next_pantry_id' = next_pantry_id
                    /\ ingestion_jobs' = ingestion_jobs
                    /\ resp' = resp
                    /\ Len(conf') = Len(conf)
                    /\ conf'[c].i = r.i + 1
                    /\ conf'[c].writes = r.writes
                    /\ conf'[c].pc = IF r.i < Len(r.staged)
                                     THEN "loop" ELSE "setConfirmed"
              /\ (r.pc = "setConfirmed" /\ conf' # conf)
                 => /\ ingestion_jobs'[r.job].status = "confirmed"
                    /\ resp' = [job |-> r.job, err |-> NoError]
                    /\ pantry_items' = pantry_items]_vars

\* A confirm call skipped a staged item without ingredient id, upserted the
\* item listed after it, and is about to write the status.
C10_Witness ==
    \E c \in DOMAIN conf :
        LET r == conf[c]
        IN  /\ r.pc = "setConfirmed"
            /\ Len(r.staged) = 2
            /\ r.staged[1].ingredient_id = Null
            /\ r.staged[1].id \in r.skipped
            /\ Len(r.writes) = 1
            /\ r.writes[1].staged_item_id = r.staged[2].id
            /\ \E row \in pantry_items :
                   row.ingredient_id = r.writes[1].ingredient_id
            /\ ingestion_jobs[r.job].status = "staged"

\* C11: a ConfirmJob call makes exactly one upsert for every staged item it
\* has handled whose ingredient id is present, in the staged item or in its
\* override, and none for every other staged item; once the loop is over
\* this covers every staged item of the job.
C11_OneUpsertPerResolvedItem ==
    \A c \in DOMAIN conf :
        LET r == conf[c]
            handled == IF r.pc = "setConfirmed" THEN Len(r.staged) ELSE r.i - 1
        IN  /\ r.pc = "setConfirmed" => r.i = Len(r.staged) + 1
            /\ \A w \in 1..Len(r.writes) :
                  \E k \in 1..handled : r.staged[k].id = r.writes[w].staged_item_id
            /\ \A k \in 1..handled :
                  LET item == r.staged[k]
                      ks == { n \in 1..Len(r.overrides) :
                                r.overrides[n].staged_item_id = item.id }
                      o == r.overrides[CHOOSE n \in ks : \A m \in ks : m <= n]
                      present == \/ item.ingredient_id # Null
                                 \/ (ks # {} /\ o.ingredient_id # Null)
                      upserts == { w \in 1..Len(r.writes) :
                                     r.writes[w].staged_item_id = item.id }
                  IN  Cardinality(upserts) = IF present THEN 1 ELSE 0

\* A confirm call has finished the loop over two unresolved staged items:
\* the one whose override supplies an ingredient id was upserted, the other
\* was not.
C11_Witness ==
    \E c \in DOMAIN conf :
        LET r == conf[c]
        IN  /\ r.pc = "setConfirmed"
            /\ Len(r.staged) = 2
            /\ r.staged[1].ingredient_id = Null
            /\ r.staged[2].ingredient_id = Null
            /\ Len(r.overrides) = 1
            /\ r.overrides[1].ingredient_id # Null
            /\ Len(r.writes) = 1
            /\ r.writes[1].staged_item_id = r.overrides[1].staged_item_id
            /\ Cardinality(r.skipped) = 1

\* C12: an upsert for an ingredient that already has a pantry row leaves
\* exactly one row for the ingredient, with the row id it had before and the
\* quantity, unit and expiration of this upsert (replaced, not summed), and
\* leaves every other row alone; an upsert for a new ingredient adds one row
\* with a fresh id.
C12_UpsertReplaces ==
    [][(nRequests'.add = nRequests.add + 1 /\ reply'.code = 201)
       => LET a == reply'.upsert[1]
              b == reply'.body[1]
              old == { r \in pantry_items : r.ingredient_id = a.ingredient_id }
          IN  /\ { r \in pantry_items' : r.ingredient_id = a.ingredient_id } = {b}
              /\ b.quantity = a.quantity
              /\ b.unit = a.unit
              /\ b.expires_at = a.expires_at
              /\ pantry_items' \ {b} = pantry_items \ old
              /\ IF old # {}
                 THEN /\ \A r \in old : b.id = r.id
                      /\ Cardinality(pantry_items') = Cardinality(pantry_items)
                 ELSE /\ \A r \in pantry_items : b.id # r.id
                      /\ Cardinality(pantry_items') = Cardinality(pantry_items) + 1]_vars

\* The confirm of a job upserted ing1 with (2, cup) into the first row of
\* the pantry, and a later add for ing1 with (7, g) was answered with that
\* row: the pantry holds the one row, with (7, g).
C12_Witness ==
    /\ nRequests = [confirm |-> 1, add |-> 1, delete |-> 0, reset |-> 0]
    /\ Len(ingestion_jobs) = 1
    /\ ingestion_jobs[1].status = "confirmed"
    /\ reply.handler = "handleAddItem"
    /\ reply.code = 201
    /\ reply.body[1].id = 1
    /\ next_pantry_id = 2
    /\ pantry_items = { [id |-> 1, ingredient_id |-> "ing1", quantity |-> 7,
                         unit |-> "g", expires_at |-> Null] }

\* C13: in every reachable state the pantry holds at most one row per
\* ingredient id (and no two rows share a row id).
C13_OneRowPerIngredient ==
    \A r1, r2 \in pantry_items :
        (r1.ingredient_id = r2.ingredient_id \/ r1.id = r2.id) => r1 = r2

\* After two adds, a delete, a reset and a confirmed job the pantry holds a
\* row for ing1 and a row for ing2.
C13_Witness ==
    /\ nRequests.add = 2
    /\ nRequests.delete = 1
    /\ nRequests.reset = 1
    /\ \E j \in DOMAIN ingestion_jobs : ingestion_jobs[j].status = "confirmed"
    /\ { r.ingredient_id : r \in pantry_items } = {"ing1", "ing2"}
    /\ next_pantry_id > 3

\* C14: when the upsert for the staged item a ConfirmJob call is at fails
\* (the item has an ingredient id and the step records no upsert), the call
\* returns the upsert error to its caller at once, so no later item is
\* upserted; the pantry keeps the rows of the call's earlier upserts, nothing
\* is rolled back, and the job's status stays staged.
C14_UpsertFailureAborts ==
    [][\A c \in DOMAIN conf :
          LET r == conf[c]
              item == r.staged[r.i]
              ks == { n \in 1..Len(r.overrides) :
                        r.overrides[n].staged_item_id = item.id }
              o == r.overrides[CHOOSE n \in ks : \A m \in ks : m <= n]
              present == \/ item.ingredient_id # Null
                         \/ (ks # {} /\ o.ingredient_id # Null)
              upserted == /\ Len(conf') = Len(conf)
                          /\ Len(conf'[c].writes) = Len(r.writes) + 1
          IN  (r.pc = "loop" /\ conf' # conf /\ present /\ ~upserted)
              => /\ Len(conf') = Len(conf) - 1
                 /\ resp'.job = r.job
                 /\ resp'.err.msg = "upsert pantry item for staged item"
                 /\ resp'.err # NoError
                 /\ Len(r.writes) <= r.i - 1
                 /\ pantry_items' = pantry_items
                 /\ next_pantry_id' = next_pantry_id
                 /\ \A w \in 1..Len(r.writes) :
                       \E row \in pantry_items' :
                           row.ingredient_id = r.writes[w].ingredient_id
                 /\ staged_items' = staged_items
                 /\ ingestion_jobs' = ingestion_jobs
                 /\ ingestion_jobs'[r.job].status = "staged"]_vars

\* The first confirm call for a job returned the upsert error after it had
\* upserted an earlier staged item: the row is in the pantry and the job is
\* staged.
C14_Witness ==
    /\ nRequests.confirm = 1
    /\ conf = <<>>
    /\ resp.job \in DOMAIN ingestion_jobs
    /\ resp.err = ErrUpsert
    /\ pantry_items # {}
    /\ ingestion_jobs[resp.job].status = "staged"

\* C15: a ConfirmJob call for a job id that does not exist returns
\* sql.ErrNoRows, which handleConfirmJob answers with 404; no job is
\* created, no staged item is listed or written and the pantry is unchanged.
C15_UnknownJobNotFound ==
    [][(/\ nRequests'.confirm = nRequests.confirm + 1
        /\ conf' = conf
        /\ resp'.job \notin DOMAIN ingestion_jobs)
       => /\ resp'.err = [msg |-> "sql: no rows in result set", status |-> Null]
          /\ ConfirmStatusCode(resp'.err) = 404
          /\ ingestion_jobs' = ingestion_jobs
          /\ staged_items' = staged_items
          /\ pantry_items' = pantry_items
          /\ next_pantry_id' = next_pantry_id
          /\ proc' = proc
          /\ audit' = audit]_vars

\* A confirm request for job 1 was answered not found before any job was
\* submitted, with a row in the pantry.
C15_Witness ==
    /\ ingestion_jobs = <<>>
    /\ resp.job = 1
    /\ resp.err = ErrNoRows
    /\ ConfirmStatusCode(resp.err) = 404
    /\ pantry_items # {}

\* C16: a submission that is accepted creates exactly one job, with status
\* pending and no staged item, answers 202 with the new job's id and the
\* status pending, and returns with the job's goroutine launched but neither
\* the extraction nor any resolve done; earlier jobs and the pantry are
\* unchanged.
C16_SubmitCreatesPendingJob ==
    [][(\/ Len(ingestion_jobs') # Len(ingestion_jobs)
        \/ (reply' # reply /\ reply'.handler = "handleIngest" /\ reply'.code = 202))
       => LET id == Len(ingestion_jobs) + 1
          IN  /\ Len(ingestion_jobs') = id
              /\ \A j \in DOMAIN ingestion_jobs :
                    ingestion_jobs'[j] = ingestion_jobs[j]
              /\ ingestion_jobs'[id].status = "pending"
              /\ ingestion_jobs'[id].raw_input # ""
              /\ Len(staged_items') = id
              /\ staged_items'[id] = <<>>
              /\ reply'.handler = "handleIngest"
              /\ reply'.code = 202
              /\ reply'.body = <<[job_id |-> id, status |-> "pending"]>>
              /\ Len(proc') = id
              /\ proc'[id].pc = "extract"
              /\ proc'[id].resolves = 0
              /\ pantry_items' = pantry_items]_vars

\* A submission without a type was just answered 202: the job is pending
\* with the default type, it has no staged item, and its goroutine has not
\* started the extraction.
C16_Witness ==
    /\ reply.handler = "handleIngest"
    /\ reply.code = 202
    /\ Len(ingestion_jobs) = 1
    /\ ingestion_jobs[1].status = "pending"
    /\ ingestion_jobs[1].type = "text_blob"
    /\ staged_items[1] = <<>>
    /\ proc[1].pc = "extract"

\* C17: every job has a non-empty raw input and exactly one processing
\* goroutine; a submission answered with an error (400 for empty content, 500
\* for a failed CreateJob) persists no job and launches no goroutine.
C17_RejectedSubmission ==
    /\ [](/\ Len(proc) = Len(ingestion_jobs)
          /\ \A j \in DOMAIN ingestion_jobs : ingestion_jobs[j].raw_input # "")
    /\ [][(reply' # reply /\ reply'.handler = "handleIngest" /\ reply'.code # 202)
          => /\ reply'.code \in {400, 500}
             /\ reply'.error \in {"content is required",
                                  "failed to create ingest job"}
             /\ reply'.body = <<>>
             /\ ingestion_jobs' = ingestion_jobs
             /\ proc' = proc
             /\ staged_items' = staged_items]_vars

\* A submission whose CreateJob failed was answered 500: there is no job
\* and no goroutine.
C17_Witness ==
    /\ reply.handler = "handleIngest"
    /\ reply.code = 500
    /\ reply.error = "failed to create ingest job"
    /\ ingestion_jobs = <<>>
    /\ proc = <<>>

\* C18: when CreateStagedItem fails for a candidate, the goroutine returns
\* with the earlier candidates' staged items written, no resolve call and no
\* staged item for the later candidates, and the job's status is failed.
C18_StagingFailureMarksFailed ==
    \A j \in DOMAIN proc :
        proc[j].createErr
        => /\ proc[j].pc = "done"
           /\ Len(staged_items[j]) = proc[j].resolves - 1
           /\ ingestion_jobs[j].status = "failed"

\* C19: the staged items of a job are, in order, the candidates its
\* goroutine has handled, each with the candidate's raw text, quantity, unit
\* and confidence; the status is set to staged only by the goroutine that
\* has written the staged item of its last candidate; staged items never
\* change once written, so a staged or confirmed job has exactly one staged
\* item per extracted candidate.
C19_OneStagedItemPerCandidate ==
    /\ [](\A j \in DOMAIN proc :
            LET p == proc[j]
                rows == staged_items[j]
                Matches(k) == /\ rows[k].job_id = j
                              /\ rows[k].raw_text = p.items[k].raw_text
                              /\ rows[k].quantity = p.items[k].quantity
                              /\ rows[k].unit = p.items[k].unit
                              /\ rows[k].confidence = p.items[k].confidence
            IN  /\ p.pc = "items"
                   => /\ Len(rows) = p.i - 1
                      /\ ingestion_jobs[j].status = "pending"
                      /\ \A k \in 1..Len(rows) : Matches(k)
                /\ p.pc = "setStaged"
                   => /\ Len(rows) = Len(p.items)
                      /\ Len(rows) = p.nItems
                      /\ ingestion_jobs[j].status = "pending"
                      /\ \A k \in 1..Len(rows) : Matches(k)
                /\ ingestion_jobs[j].status \in {"staged", "confirmed"}
                   => Len(rows) = p.nItems)
    /\ [][\A j \in DOMAIN proc :
            /\ (ingestion_jobs[j].status # "staged"
                  /\ ingestion_jobs'[j].status = "staged")
               => /\ proc[j].pc = "setStaged"
                  /\ staged_items'[j] = staged_items[j]
            /\ \A k \in 1..Len(staged_items[j]) :
                  staged_items'[j][k] = staged_items[j][k]
            /\ ingestion_jobs[j].status \in {"staged", "confirmed"}
               => staged_items'[j] = staged_items[j]]_vars

\* A job whose extraction returned chicken and flour is staged with the two
\* staged items, in the order of the extraction.
C19_Witness ==
    \E j \in DOMAIN proc :
        /\ ingestion_jobs[j].status = "staged"
        /\ proc[j].nItems = 2
        /\ Len(staged_items[j]) = 2
        /\ staged_items[j][1].raw_text = "1 lb chicken breast"
        /\ staged_items[j][1].quantity = 1
        /\ staged_items[j][1].unit = "lb"
        /\ staged_items[j][1].confidence = 70
        /\ staged_items[j][2].raw_text = "2 cups flour"

\* C20: when a ConfirmJob call without overrides completes for a job whose
\* staged items all have an ingredient id, pairwise distinct, and a
\* confidence of at least 0.7, then no staged item needs review, the pantry
\* holds for each staged item's ingredient a row with the quantity and the
\* unit of the extracted candidate and no expiration, the job's status is
\* confirmed and the call returns no error.
C20_EndToEnd ==
    [][\A c \in DOMAIN conf :
          LET r == conf[c]
              n == Len(r.staged)
          IN  (/\ r.pc = "setConfirmed"
               /\ conf' # conf
               /\ r.overrides = <<>>
               /\ n > 0
               /\ \A k \in 1..n : /\ r.staged[k].ingredient_id # Null
                                  /\ r.staged[k].confidence >= 70
               /\ \A k, m \in 1..n :
                     k # m => r.staged[k].ingredient_id # r.staged[m].ingredient_id)
              => /\ n = proc[r.job].nItems
                 /\ \A k \in 1..n :
                       LET item == r.staged[k]
                           cand == CHOOSE e \in ExtractedItems :
                                       e.raw_text = item.raw_text
                       IN  /\ item.needs_review = FALSE
                           /\ \E row \in pantry_items' :
                                 /\ row.ingredient_id = item.ingredient_id
                                 /\ row.quantity = cand.quantity
                                 /\ row.unit = cand.unit
                                 /\ row.expires_at = Null
                 /\ ingestion_jobs'[r.job].status = "confirmed"
                 /\ resp' = [job |-> r.job, err |-> NoError]]_vars

\* Flour and chicken were extracted, resolved to two ingredients and staged
\* without review; the job's only confirm request succeeded and the pantry
\* holds (2, cup) and (1, lb).
C20_Witness ==
    /\ nRequests.confirm = 1
    /\ resp = [job |-> 1, err |-> NoError]
    /\ Len(ingestion_jobs) = 1
    /\ ingestion_jobs[1].status = "confirmed"
    /\ Len(staged_items[1]) = 2
    /\ \A k \in 1..2 : ~staged_items[1][k].needs_review
    /\ \E a, b \in Ingredients :
          /\ a # b
          /\ pantry_items =
                { [id |-> 1, ingredient_id |-> a, quantity |-> 1, unit |-> "lb",
                   expires_at |-> Null],
                  [id |-> 2, ingredient_id |-> b, quantity |-> 2, unit |-> "cup",
                   expires_at |-> Null] }

\* C21: every upsert a ConfirmJob call makes carries no expiration, and the
\* step that makes it leaves the ingredient's pantry row without expiration,
\* whatever expiration the row had before.
C21_ConfirmClearsExpiration ==
    /\ [](\A c \in DOMAIN conf :
            \A w \in 1..Len(conf[c].writes) : conf[c].writes[w].expires_at = Null)
    /\ [][\A c \in DOMAIN conf :
            (/\ Len(conf') = Len(conf)
             /\ Len(conf'[c].writes) = Len(conf[c].writes) + 1)
            => LET wr == conf'[c].writes[Len(conf'[c].writes)]
                   rows == { row \in pantry_items' :
                               row.ingredient_id = wr.ingredient_id }
               IN  /\ wr.expires_at = Null
                   /\ rows # {}
                   /\ \A row \in rows : row.expires_at = Null]_vars

\* An add for ing1 with an expiration was answered 201 with the row it
\* wrote, and the row has no expiration any more: a confirm upserted ing1
\* after the add.
C21_Witness ==
    /\ reply.handler = "handleAddItem"
    /\ reply.code = 201
    /\ reply.upsert[1].ingredient_id = "ing1"
    /\ reply.body[1].expires_at = "2027-01-01T00:00:00Z"
    /\ \E row \in pantry_items :
          /\ row.id = reply.body[1].id
          /\ row.ingredient_id = "ing1"
          /\ row.expires_at = Null

\* C22: when confirm calls of different jobs and a direct add upsert the
\* same ingredient in any interleaving, the pantry holds one row for the
\* ingredient; every write leaves in that row exactly its own quantity, unit
\* and expiration, the row changes at no other step, and so the row always
\* holds the complete triple of one write, the last one applied, never a sum
\* and never fields of two writes.
C22_LastWriterWins ==
    /\ [](\A r1 \in pantry_items :
            /\ \A r2 \in pantry_items :
                  r1.ingredient_id = r2.ingredient_id => r1 = r2
            /\ <<r1.quantity, r1.unit, r1.expires_at>>
                  \in UNION { { <<staged_items[j][k].quantity,
                                   staged_items[j][k].unit, Null>> :
                                 k \in 1..Len(staged_items[j]) } :
                               j \in DOMAIN staged_items }
                      \cup { <<5, "g", "2027-01-01T00:00:00Z">> })
    /\ [][LET byConfirm == { c \in DOMAIN conf :
                               /\ Len(conf') = Len(conf)
                               /\ Len(conf'[c].writes) = Len(conf[c].writes) + 1 }
              byAdd == /\ nRequests'.add = nRequests.add + 1
                       /\ reply'.code = 201
              written == { conf'[c].writes[Len(conf'[c].writes)] : c \in byConfirm }
                         \cup (IF byAdd THEN {reply'.upsert[1]} ELSE {})
          IN  /\ pantry_items' # pantry_items => written # {}
              /\ Cardinality(written) <= 1
              /\ \A wr \in written :
                    LET old == { r \in pantry_items :
                                   r.ingredient_id = wr.ingredient_id }
                        new == { r \in pantry_items' :
                                   r.ingredient_id = wr.ingredient_id }
                    IN  /\ Cardinality(new) = 1
                        /\ \A r \in new : /\ r.quantity = wr.quantity
                                          /\ r.unit = wr.unit
                                          /\ r.expires_at = wr.expires_at
                                          /\ \A o \in old : r.id = o.id
                        /\ pantry_items' \ new = pantry_items \ old]_vars

\* The confirm calls of two jobs are both in flight, one has upserted ing1
\* with (2, cup) and the other with (1, bunch), the add for ing1 was applied
\* too, and the one row of ing1 holds the triple of one of the confirm calls.
C22_Witness ==
    /\ Len(conf) = 2
    /\ conf[1].job # conf[2].job
    /\ Len(conf[1].writes) = 1
    /\ Len(conf[2].writes) = 1
    /\ conf[1].writes[1].ingredient_id = "ing1"
    /\ conf[2].writes[1].ingredient_id = "ing1"
    /\ conf[1].writes[1].quantity # conf[2].writes[1].quantity
    /\ nRequests.add = 1
    /\ \E c \in 1..2 :
          pantry_items = { [id |-> 1, ingredient_id |-> "ing1",
                            quantity |-> conf[c].writes[1].quantity,
                            unit |-> conf[c].writes[1].unit,
                            expires_at |-> Null] }

\* C23: no step of a confirm request (the status check, an iteration of the
\* loop with or without override, an upsert error, the status write) changes
\* a staged item or adds or removes one; the staged items a ConfirmJob call
\* works on are the stored rows, so the values of an override appear only in
\* the upserts of the call that carries it.
C23_ConfirmKeepsStagedItems ==
    /\ [][(conf' # conf \/ nRequests'.confirm # nRequests.confirm \/ resp' # resp)
          => staged_items' = staged_items]_vars
    /\ [](\A c \in DOMAIN conf :
            /\ Len(conf[c].staged) = Len(staged_items[conf[c].job])
            /\ \A k \in 1..Len(conf[c].staged) :
                  \E n \in 1..Len(staged_items[conf[c].job]) :
                      conf[c].staged[k] = staged_items[conf[c].job][n])

\* The only confirm request of a job succeeded; its override made it upsert
\* ing2 with (3, oz) for a staged item that still is flour, resolved to ing1,
\* with (2, cup), confidence 0.95 and no review.
C23_Witness ==
    /\ nRequests.confirm = 1
    /\ resp = [job |-> 1, err |-> NoError]
    /\ conf = <<>>
    /\ pantry_items = { [id |-> 1, ingredient_id |-> "ing2", quantity |-> 3,
                         unit |-> "oz", expires_at |-> Null] }
    /\ staged_items[1] =
          << [id |-> <<1, 1>>, job_id |-> 1, ingredient_id |-> "ing1",
              raw_text |-> "2 cups flour", quantity |-> 2, unit |-> "cup",
              confidence |-> 95, needs_review |-> FALSE] >>

\* C24: no step of a confirm request calls the dictionary or the LLM; the
\* LLM is called only by a processing goroutine at its extraction step, once
\* per step, and the dictionary only by a processing goroutine for the
\* candidate it is at and by an add-item request that gives a name and no
\* ingredient id.
C24_ConfirmCallsNoCollaborator ==
    [][/\ (conf' # conf \/ nRequests'.confirm # nRequests.confirm \/ resp' # resp)
          => /\ calls'.llm = calls.llm
             /\ calls'.dictionary = calls.dictionary
       /\ calls'.llm # calls.llm
          => /\ calls'.llm = calls.llm + 1
             /\ \E j \in DOMAIN proc :
                   /\ proc[j].pc = "extract"
                   /\ proc'[j].pc # "extract"
       /\ calls'.dictionary # calls.dictionary
          => /\ calls'.dictionary = calls.dictionary + 1
             /\ \/ \E j \in DOMAIN proc :
                      /\ proc[j].pc = "items"
                      /\ proc'[j].resolves = proc[j].resolves + 1
                \/ \E req \in AddItemRequests, resolved \in SpecIngredients,
                      storeOK \in BOOLEAN :
                      /\ req.ingredient_id = ""
                      /\ req.name # ""
                      /\ handleAddItem(req, resolved, storeOK)]_vars

\* A job with two candidates, one of them unresolved, was confirmed and an
\* add-item request by name was answered: the LLM was called once and the
\* dictionary three times, twice by the goroutine and once by the add.
C24_Witness ==
    /\ Len(ingestion_jobs) = 1
    /\ ingestion_jobs[1].status = "confirmed"
    /\ resp = [job |-> 1, err |-> NoError]
    /\ proc[1].resolves = 2
    /\ proc[1].resolveFails = 1
    /\ nRequests.add = 1
    /\ reply.handler = "handleAddItem"
    /\ reply.code = 502
    /\ calls.llm = 1
    /\ calls.dictionary = 3

\* C25: the end of the submitting request's context changes nothing but that
\* context; whether it has ended or not, the goroutine of the job goes on:
\* its write of staged succeeds, its context is done only when 90 seconds of
\* its own have passed, it eventually returns, and when it returns within
\* its 90 seconds the job is staged, or failed after an extraction or staging
\* error.
C25_RequestCancelDoesNotAbort ==
    /\ [][request_ctx' # request_ctx
          => UNCHANGED <<ingestion_jobs, staged_items, pantry_items, proc>>
             \/ Len(ingestion_jobs') = Len(ingestion_jobs) + 1]_vars
    /\ [][\A j \in DOMAIN proc :
            proc'[j] # proc[j]
            => /\ proc[j].pc = "setStaged"
                  => ingestion_jobs'[j].status = "staged"
               /\ proc'[j].expired
                  => proc[j].elapsed + LLMTimeout >= ProcessBudget
               /\ (proc[j].pc = "extract" /\ proc'[j].pc = "done"
                     /\ proc[j].elapsed + LLMTimeout < ProcessBudget)
                  => ingestion_jobs'[j].status = "failed"]_vars
    /\ [](\A j \in DOMAIN proc :
            (proc[j].pc = "done" /\ ~proc[j].expired)
            => ingestion_jobs[j].status =
                  IF proc[j].extractErr \/ proc[j].createErr THEN "failed"
                                                              ELSE "staged")
    /\ \A j \in 1..MaxJobs :
          [](j \in DOMAIN request_ctx
             => <>(j \in DOMAIN proc /\ proc[j].pc = "done"))

\* The context of the submitting request ended while the job was pending;
\* its goroutine has staged two items since and is about to write the status.
C25_Witness ==
    \E j \in DOMAIN proc :
        /\ request_ctx[j]
        /\ proc[j].pc = "setStaged"
        /\ Len(staged_items[j]) = 2
        /\ ingestion_jobs[j].status = "pending"

\* C26: an upsert (from an add-item request or from a confirm call), a
\* delete and a reset that succeed in the store make exactly one publish
\* attempt each, with the id of the row upserted, the id deleted, or no id for
\* a reset; when the attempt fails the operation still succeeds and its
\* change stays in the store; an operation that fails, and every other step,
\* makes no publish attempt.
C26_PublishFailureIsNotFatal ==
    [][LET attempts == calls'.publish - calls.publish
           byConfirm == { c \in DOMAIN conf :
                            /\ Len(conf') = Len(conf)
                            /\ Len(conf'[c].writes) = Len(conf[c].writes) + 1 }
           added == /\ nRequests'.add = nRequests.add + 1
                    /\ reply'.code = 201
           deleted == /\ nRequests'.delete = nRequests.delete + 1
                      /\ reply'.code = 204
           reset == /\ nRequests'.reset = nRequests.reset + 1
                    /\ reply'.code = 204
       IN  /\ attempts = IF byConfirm # {} \/ added \/ deleted \/ reset
                         THEN 1 ELSE 0
           /\ added
              => /\ reply'.body[1] \in pantry_items'
                 /\ calls'.changed_item_ids = <<reply'.body[1].id>>
           /\ \A c \in byConfirm :
                 LET wr == conf'[c].writes[Len(conf'[c].writes)]
                 IN  /\ resp' = resp
                     /\ \E row \in pantry_items' :
                           /\ row.ingredient_id = wr.ingredient_id
                           /\ row.quantity = wr.quantity
                           /\ row.unit = wr.unit
                           /\ calls'.changed_item_ids = <<row.id>>
           /\ deleted
              => /\ Len(calls'.changed_item_ids) = 1
                 /\ \E param \in ItemIDParams :
                       /\ handleDeleteItem(param, TRUE)
                       /\ calls'.changed_item_ids = ParseItemID(param)
                 /\ pantry_items' =
                       { row \in pantry_items :
                           row.id # calls'.changed_item_ids[1] }
           /\ reset
              => /\ calls'.changed_item_ids = <<>>
                 /\ pantry_items' = {}
           /\ (attempts > 0 /\ calls'.publishErr)
              => byConfirm # {} \/ added \/ deleted \/ reset]_vars

\* Three publish attempts were made, for two adds and a delete; the last one
\* failed, for the delete of row 2, which was answered 204: row 2 is gone and
\* row 1 is in place.
C26_Witness ==
    /\ calls.publish = 3
    /\ calls.publishErr
    /\ nRequests = [confirm |-> 0, add |-> 2, delete |-> 1, reset |-> 0]
    /\ reply.handler = "handleDeleteItem"
    /\ reply.code = 204
    /\ calls.changed_item_ids = <<2>>
    /\ next_pantry_id = 3
    /\ { row.id : row \in pantry_items } = {1}

\* C27: an add-item request whose quantity is not positive, whose unit is
\* empty, whose ingredient_id is malformed, or that has neither name nor
\* ingredient_id is answered 400 with the message of the first failing check
\* and no body, and changes no pantry row, no job and no staged item; it
\* makes no publish attempt.
C27_AddItemValidation ==
    [][nRequests'.add = nRequests.add + 1
       => \A req \in AddItemRequests, resolved \in SpecIngredients,
             storeOK \in BOOLEAN :
          (/\ handleAddItem(req, resolved, storeOK)
           /\ \/ req.quantity <= 0
              \/ req.unit = ""
              \/ req.ingredient_id = "not-a-uuid"
              \/ (req.name = "" /\ req.ingredient_id = ""))
          => /\ reply'.handler = "handleAddItem"
             /\ reply'.code = 400
             /\ reply'.error =
                   IF req.quantity <= 0 THEN "quantity must be positive"
                   ELSE IF req.unit = "" THEN "unit is required"
                   ELSE IF req.ingredient_id = "not-a-uuid"
                   THEN "invalid ingredient_id"
                   ELSE "name or ingredient_id is required"
             /\ reply'.body = <<>>
             /\ pantry_items' = pantry_items
             /\ next_pantry_id' = next_pantry_id
             /\ ingestion_jobs' = ingestion_jobs
             /\ staged_items' = staged_items
             /\ proc' = proc
             /\ conf' = conf
             /\ calls' = calls]_vars

\* An add-item request with a malformed ingredient_id was answered 400 after
\* a job was confirmed: the job, its staged item and the pantry row of its
\* confirm are in place.
C27_Witness ==
    /\ nRequests.add = 1
    /\ reply = Reply("handleAddItem", 400, "invalid ingredient_id", <<>>, <<>>)
    /\ Len(ingestion_jobs) = 1
    /\ ingestion_jobs[1].status = "confirmed"
    /\ Len(staged_items[1]) = 1
    /\ pantry_items = { [id |-> 1, ingredient_id |-> "ing1", quantity |-> 2,
                         unit |-> "cup", expires_at |-> Null] }
    /\ calls.publish = 1

\* C28: a reset request without confirm=true is answered 400 and leaves the
\* pantry as it is; a reset request with confirm=true is answered 204 with
\* the pantry empty, or 500 with the pantry as it is when the store fails;
\* no reset request touches a job or a staged item.
C28_ResetNeedsConfirm ==
    [][nRequests'.reset = nRequests.reset + 1
       => \A confirm \in ResetParams, storeOK \in BOOLEAN :
             handleReset(confirm, storeOK)
             => /\ reply'.handler = "handleReset"
                /\ ingestion_jobs' = ingestion_jobs
                /\ staged_items' = staged_items
                /\ IF confirm # "true"
                   THEN /\ reply'.code = 400
                        /\ pantry_items' = pantry_items
                        /\ calls' = calls
                   ELSE IF storeOK
                   THEN /\ reply'.code = 204
                        /\ pantry_items' = {}
                   ELSE /\ reply'.code = 500
                        /\ pantry_items' = pantry_items]_vars

\* The pantry held two rows, no delete request was made, and a reset request
\* with confirm=true was answered 204: the pantry is empty.
C28_Witness ==
    /\ nRequests.reset = 1
    /\ nRequests.delete = 0
    /\ next_pantry_id = 3
    /\ reply = Reply("handleReset", 204, "", <<>>, <<>>)
    /\ pantry_items = {}
    /\ calls.changed_item_ids = <<>>
    /\ calls.publish = 3

\* C29: a pantry row that a step creates or changes is the row of the one
\* upsert the step makes, for an add-item request answered 201 or for a
\* staged item of a confirm call, and the pantry after the step is the
\* result of UpsertPantryItem with the values of that write; every other step
\* (job creation, processing, job lookup, listing, a rejected or failed
\* request, a delete, a reset) creates and changes no row.
C29_UpsertIsSoleWritePath ==
    [][LET byConfirm == { c \in DOMAIN conf :
                            /\ Len(conf') = Len(conf)
                            /\ Len(conf'[c].writes) = Len(conf[c].writes) + 1 }
           added == /\ nRequests'.add = nRequests.add + 1
                    /\ reply'.code = 201
           written == { conf'[c].writes[Len(conf'[c].writes)] : c \in byConfirm }
                      \cup (IF added THEN {reply'.upsert[1]} ELSE {})
       IN  /\ written = {} => pantry_items' \subseteq pantry_items
           /\ \A wr \in written :
                 /\ pantry_items' =
                       UpsertPantryItem(pantry_items, next_pantry_id,
                                        wr.ingredient_id, wr.quantity, wr.unit,
                                        wr.expires_at)
                 /\ \A row \in pantry_items' \ pantry_items :
                       /\ row.ingredient_id = wr.ingredient_id
                       /\ row.quantity = wr.quantity
                       /\ row.unit = wr.unit
                       /\ row.expires_at = wr.expires_at
           /\ (\/ Len(ingestion_jobs') # Len(ingestion_jobs)
               \/ proc' # proc
               \/ (reply' # reply
                   /\ reply'.handler \in {"handleIngest", "handleGetJob",
                                          "handleListPantry"}))
              => /\ pantry_items' = pantry_items
                 /\ next_pantry_id' = next_pantry_id]_vars

\* The pantry was listed after the confirm of a job and an add by name: the
\* listing shows the row of ing1 from the confirm and the row of ing2 from
\* the add, and the pantry holds these two rows.
C29_Witness ==
    /\ reply.handler = "handleListPantry"
    /\ reply.code = 200
    /\ Len(reply.body[1].items) = 2
    /\ reply.body[1].items[1] =
          [id |-> 1, ingredient_id |-> "ing1", quantity |-> 2, unit |-> "cup",
           expires_at |-> Null]
    /\ reply.body[1].items[2].ingredient_id = "ing2"
    /\ pantry_items = { reply.body[1].items[1], reply.body[1].items[2] }
    /\ ingestion_jobs[1].status = "confirmed"
    /\ nRequests.delete = 1
    /\ nRequests.reset = 1

\* C30: no step removes a job or changes the identifier, the type or the
\* raw input of a job: the jobs of a state are jobs of the next state, at the
\* same identifier and equal in every field except possibly the status.
C30_JobsAreKept ==
    [][/\ Len(ingestion_jobs') >= Len(ingestion_jobs)
       /\ \A j \in DOMAIN ingestion_jobs :
             /\ ingestion_jobs'[j].type = ingestion_jobs[j].type
             /\ ingestion_jobs'[j].raw_input = ingestion_jobs[j].raw_input
             /\ [ingestion_jobs'[j] EXCEPT !.status = ingestion_jobs[j].status]
                   = ingestion_jobs[j]]_vars

\* A job submitted without a type went through processing, a confirm and a
\* second, rejected confirm request, and an add-item request was answered:
\* the job has the default type and the submitted text.
C30_Witness ==
    /\ ingestion_jobs =
          << [type |-> "text_blob",
              raw_input |-> "2 cups flour, 1 lb chicken breast",
              status |-> "confirmed"] >>
    /\ proc[1].pc = "done"
    /\ nRequests.confirm = 2
    /\ nRequests.add = 1
    /\ resp.err.status = "confirmed"

\* C31: the goroutine handles the candidates in the order of the extraction
\* response, one at a time: it calls the resolver for candidate i only when
\* the staged items of candidates 1..i-1 are written, it writes the staged
\* item of candidate i only after the resolver call for candidate i has
\* returned, with the ingredient id of that call, and the staged items are
\* in the order of the candidates.
C31_CandidatesInOrder ==
    /\ [](\A j \in DOMAIN proc :
            LET p == proc[j]
                rows == staged_items[j]
            IN  /\ p.pc = "items"
                   => /\ Len(rows) = p.i - 1
                      /\ p.resolves = p.i - 1
                      /\ p.resolved = <<>>
                /\ p.pc = "create"
                   => /\ Len(rows) = p.i - 1
                      /\ p.resolves = p.i
                      /\ p.resolved[1].name = p.items[p.i].name
                /\ p.pc \in {"items", "create", "setStaged"}
                   => \A k \in 1..Len(rows) :
                         rows[k].raw_text = p.items[k].raw_text)
    /\ [][\A j \in DOMAIN proc :
            LET p == proc[j]
                n == Len(staged_items[j])
            IN  /\ proc'[j].resolves # p.resolves
                   => /\ p.pc = "items"
                      /\ proc'[j].resolves = p.resolves + 1
                      /\ n = p.resolves
                      /\ staged_items'[j] = staged_items[j]
                      /\ proc'[j].resolved[1].name = p.items[n + 1].name
                /\ staged_items'[j] # staged_items[j]
                   => /\ p.pc = "create"
                      /\ p.resolves = n + 1
                      /\ proc'[j].resolves = p.resolves
                      /\ Len(staged_items'[j]) = n + 1
                      /\ \A k \in 1..n : staged_items'[j][k] = staged_items[j][k]
                      /\ staged_items'[j][n + 1].raw_text = p.items[n + 1].raw_text
                      /\ staged_items'[j][n + 1].ingredient_id
                            = p.resolved[1].ingredient_id]_vars

\* The extraction returned flour and then chicken; flour is staged, the
\* resolver has answered for chicken, and chicken is not staged yet.
C31_Witness ==
    \E j \in DOMAIN proc :
        /\ proc[j].pc = "create"
        /\ proc[j].items = <<Flour, Chicken>>
        /\ proc[j].resolves = 2
        /\ proc[j].resolved[1].name = "chicken breast"
        /\ Len(staged_items[j]) = 1
        /\ staged_items[j][1].raw_text = "2 cups flour"

\* C32: a confirm takes the staged items in the order of the listing, which
\* is sorted by raw text, and upserts them one after the other in that
\* order; when several staged items of the job have the same effective
\* ingredient every one of them is upserted, and the row of the ingredient
\* holds the quantity and unit of the one that comes last in the listing.
C32_ConfirmInListingOrder ==
    \A c \in DOMAIN conf :
        LET r == conf[c]
            n == Len(r.staged)
            done == IF r.pc = "loop" THEN r.i - 1 ELSE n
            Upserted(k) == EffectiveIngredientID(r.staged[k], r.overrides) # Null
        IN  /\ n = Len(staged_items[r.job])
            /\ { r.staged[k].id : k \in 1..n }
                  = { staged_items[r.job][k].id : k \in 1..n }
            /\ \A a, b \in 1..n :
                  a < b => RawTextRank(r.staged[a].raw_text)
                              <= RawTextRank(r.staged[b].raw_text)
            /\ Len(r.writes) = Cardinality({ k \in 1..done : Upserted(k) })
            /\ \A w \in 1..Len(r.writes) :
                  \E k \in 1..done :
                     /\ Upserted(k)
                     /\ r.writes[w].staged_item_id = r.staged[k].id
                     /\ w = Cardinality({ h \in 1..k : Upserted(h) })
            /\ \A k \in 1..done :
                  LET id == EffectiveIngredientID(r.staged[k], r.overrides)
                  IN  (/\ id # Null
                       /\ \A h \in (k + 1)..done :
                             EffectiveIngredientID(r.staged[h], r.overrides) # id)
                      => \E row \in pantry_items :
                            /\ row.ingredient_id = id
                            /\ row.quantity = EffectiveQuantity(r.staged[k], r.overrides)
                            /\ row.unit = EffectiveUnit(r.staged[k], r.overrides)

\* Flour was extracted before chicken and both resolved to the same
\* ingredient; the confirm without overrides upserted chicken and then flour,
\* and the row holds the flour's quantity and unit.
C32_Witness ==
    \E c \in DOMAIN conf :
        /\ conf[c].pc = "setConfirmed"
        /\ conf[c].overrides = <<>>
        /\ Len(staged_items[conf[c].job]) = 2
        /\ staged_items[conf[c].job][1].raw_text = "2 cups flour"
        /\ staged_items[conf[c].job][2].raw_text = "1 lb chicken breast"
        /\ staged_items[conf[c].job][1].ingredient_id = "ing1"
        /\ staged_items[conf[c].job][2].ingredient_id = "ing1"
        /\ Len(conf[c].writes) = 2
        /\ conf[c].writes[1].staged_item_id = staged_items[conf[c].job][2].id
        /\ conf[c].writes[2].staged_item_id = staged_items[conf[c].job][1].id
        /\ \E row \in pantry_items :
              row.ingredient_id = "ing1" /\ row.quantity = 2 /\ row.unit = "cup"

\* C33: from the moment a job has status staged its staged items are
\* frozen: the goroutine that wrote them has returned, and no step of a
\* confirm, a direct add, a delete or a reset creates, changes or deletes a
\* staged item of the job, also after the job is confirmed.
C33_StagedItemsFrozen ==
    /\ [](\A j \in DOMAIN ingestion_jobs :
            ingestion_jobs[j].status \in {"staged", "confirmed"}
               => proc[j].pc = "done")
    /\ [][\A j \in DOMAIN ingestion_jobs :
            ingestion_jobs[j].status \in {"staged", "confirmed"}
               => /\ j \in DOMAIN staged_items'
                  /\ staged_items'[j] = staged_items[j]]_vars

\* The job was confirmed, which wrote the only row there was, and a reset
\* then emptied the inventory; the staged item is as the goroutine wrote it.
C33_Witness ==
    \E j \in DOMAIN ingestion_jobs :
        /\ ingestion_jobs[j].status = "confirmed"
        /\ nRequests.add = 0
        /\ next_pantry_id = 2
        /\ pantry_items = {}
        /\ reply.handler = "handleReset"
        /\ reply.code = 204
        /\ Len(staged_items[j]) = 1
        /\ staged_items[j][1].raw_text = "2 cups flour"
        /\ staged_items[j][1].ingredient_id = "ing1"
        /\ staged_items[j][1].quantity = 2
        /\ staged_items[j][1].unit = "cup"

\* C34: no job ever has the status processing: a job's status is one of
\* pending, staged, failed and confirmed, it is pending for as long as the
\* goroutine of the job extracts and resolves, and the only values a step
\* writes into the status of an existing job are staged, failed and
\* confirmed.
C34_NoProcessingStatus ==
    /\ [](\A j \in DOMAIN ingestion_jobs :
            /\ ingestion_jobs[j].status
                  \in {"pending", "staged", "failed", "confirmed"}
            /\ proc[j].pc \in {"extract", "items", "create", "setStaged"}
                  => ingestion_jobs[j].status = "pending")
    /\ [][\A j \in DOMAIN ingestion_jobs :
            ingestion_jobs'[j].status # ingestion_jobs[j].status
               => ingestion_jobs'[j].status \in {"staged", "failed", "confirmed"}]_vars
    /\ [][\A j \in DOMAIN ingestion_jobs' \ DOMAIN ingestion_jobs :
            ingestion_jobs'[j].status = "pending"]_vars

\* The extraction has answered with two candidates and the first is resolved
\* and staged; the job is still pending.
C34_Witness ==
    \E j \in DOMAIN ingestion_jobs :
        /\ ingestion_jobs[j].status = "pending"
        /\ proc[j].pc = "items"
        /\ proc[j].nItems = 2
        /\ proc[j].resolves = 1
        /\ Len(staged_items[j]) = 1
        /\ calls.llm = 1

\* C35: when the goroutine of a job gives up at the write of a staged item,
\* the staged items it wrote for the earlier candidates stay as they are:
\* the job, failed or (when the budget had run out) still pending, keeps
\* fewer staged items than there were candidates, and a status query answers
\* with the job's status and exactly the staged items stored, whatever the
\* status is.
C35_PartialStagingVisible ==
    /\ [](\A j \in DOMAIN proc :
            proc[j].createErr
               => /\ proc[j].pc = "done"
                  /\ ingestion_jobs[j].status \in {"failed", "pending"}
                  /\ Len(staged_items[j]) = proc[j].resolves - 1
                  /\ Len(staged_items[j]) < proc[j].nItems)
    /\ [][\A j \in DOMAIN proc :
            (proc'[j].createErr /\ ~proc[j].createErr)
               => /\ staged_items' = staged_items
                  /\ ingestion_jobs'[j].status
                        = IF CtxDone(proc[j].elapsed) THEN "pending" ELSE "failed"]_vars
    /\ [][(/\ reply' # reply
           /\ reply'.handler = "handleGetJob"
           /\ reply'.code = 200)
          => LET b == reply'.body[1]
             IN  /\ b.status = ingestion_jobs[b.job_id].status
                 /\ b.items \in ListStagedItemsByJob(b.job_id)]_vars

\* Of two candidates the first was staged and the write for the second
\* failed; the status query shows the failed job with its one staged item.
C35_Witness ==
    /\ reply.handler = "handleGetJob"
    /\ reply.code = 200
    /\ reply.body[1].status = "failed"
    /\ Len(reply.body[1].items) = 1
    /\ proc[reply.body[1].job_id].createErr
    /\ proc[reply.body[1].job_id].nItems = 2
    /\ staged_items[reply.body[1].job_id] = reply.body[1].items

\* C36: an override that names a staged item of another job changes nothing
\* in a confirm: every upsert of the call is for a staged item of the job
\* confirmed, a staged item that no override of the list names is upserted
\* with its staged ingredient, quantity and unit, every staged item of the
\* job is upserted or skipped, and the call returns without error with the
\* job confirmed.
C36_ForeignOverrideIgnored ==
    /\ [](\A c \in DOMAIN conf :
            LET r == conf[c]
                own == { staged_items[r.job][k] : k \in 1..Len(staged_items[r.job]) }
            IN  /\ \A w \in 1..Len(r.writes) :
                      \E item \in own :
                         /\ item.id = r.writes[w].staged_item_id
                         /\ (\A k \in 1..Len(r.overrides) :
                                r.overrides[k].staged_item_id # item.id)
                            => /\ r.writes[w].ingredient_id = item.ingredient_id
                               /\ r.writes[w].quantity = item.quantity
                               /\ r.writes[w].unit = item.unit
                /\ r.pc = "setConfirmed"
                      => Len(r.writes) + Cardinality(r.skipped) = Cardinality(own))
    /\ [][Len(conf') < Len(conf)
            => /\ resp'.err = NoError
               /\ ingestion_jobs'[resp'.job].status = "confirmed"]_vars

\* The confirm of job 1 came with one override, for the staged item of job
\* 2, that sets ingredient, quantity and unit; the staged item of job 1 was
\* upserted with its staged values and nothing else was written.
C36_Witness ==
    \E c \in DOMAIN conf :
        /\ conf[c].job = 1
        /\ conf[c].pc = "setConfirmed"
        /\ Len(staged_items) = 2
        /\ Len(staged_items[1]) = 1
        /\ Len(staged_items[2]) = 1
        /\ conf[c].overrides = <<[staged_item_id |-> staged_items[2][1].id,
                                  ingredient_id |-> "ing2",
                                  quantity |-> <<3>>, unit |-> "oz"]>>
        /\ Len(conf[c].writes) = 1
        /\ conf[c].writes[1].staged_item_id = staged_items[1][1].id
        /\ pantry_items = { [id |-> 1, ingredient_id |-> "ing1", quantity |-> 2,
                             unit |-> "cup", expires_at |-> Null] }

\* C37: when the list of a confirm has several overrides for one staged
\* item, the upsert for that item is the one the call would make if the last
\* of them were the only override in the list: a field that is null in the
\* last one takes the staged value, also when an earlier override for the
\* item sets it.
C37_LastDuplicateOverrideWins ==
    \A c \in DOMAIN conf :
        LET r == conf[c]
        IN  \A w \in 1..Len(r.writes), n \in 1..Len(r.staged),
               a, b \in 1..Len(r.overrides) :
               (/\ r.staged[n].id = r.writes[w].staged_item_id
                /\ a < b
                /\ r.overrides[a].staged_item_id = r.staged[n].id
                /\ r.overrides[b].staged_item_id = r.staged[n].id
                /\ \A k \in (b + 1)..Len(r.overrides) :
                      r.overrides[k].staged_item_id # r.staged[n].id)
               => LET wr == r.writes[w]
                      item == r.staged[n]
                      last == <<r.overrides[b]>>
                  IN  /\ wr.ingredient_id = EffectiveIngredientID(item, last)
                      /\ wr.quantity = EffectiveQuantity(item, last)
                      /\ wr.unit = EffectiveUnit(item, last)
                      /\ r.overrides[b].ingredient_id = Null
                            => wr.ingredient_id = item.ingredient_id
                      /\ r.overrides[b].quantity = <<>>
                            => wr.quantity = item.quantity
                      /\ r.overrides[b].unit = Null
                            => wr.unit = item.unit

\* The list has two overrides for the staged item, the first with a
\* quantity only and the second with a unit only; the upsert has the staged
\* quantity and the second override's unit.
C37_Witness ==
    \E c \in DOMAIN conf :
        /\ Len(conf[c].overrides) = 2
        /\ Len(conf[c].writes) = 1
        /\ conf[c].overrides[1].staged_item_id = conf[c].writes[1].staged_item_id
        /\ conf[c].overrides[2].staged_item_id = conf[c].writes[1].staged_item_id
        /\ conf[c].overrides[1].quantity = <<3>>
        /\ conf[c].overrides[1].unit = Null
        /\ conf[c].overrides[1].ingredient_id = Null
        /\ conf[c].overrides[2].quantity = <<>>
        /\ conf[c].overrides[2].unit = "oz"
        /\ conf[c].overrides[2].ingredient_id = Null
        /\ conf[c].writes[1].quantity = 2
        /\ conf[c].writes[1].unit = "oz"
        /\ conf[c].writes[1].ingredient_id = "ing1"

\* C38 as stated: every inventory row has a positive quantity and a
\* non-empty unit.
C38_RowsArePositive ==
    \A row \in pantry_items : row.quantity > 0 /\ row.unit # ""

\* C38: a row written by an add-item request has a positive quantity and a
\* non-empty unit; a row written by a confirm has the quantity and the unit
\* of the override where the override sets them and of the staged item
\* otherwise, whatever they are, the quantity 0 and the empty unit included.
C38_OnlyAddsAreValidated ==
    /\ [][nRequests'.add # nRequests.add
            => \A row \in pantry_items' \ pantry_items :
                  row.quantity > 0 /\ row.unit # ""]_vars
    /\ [][\A c \in DOMAIN conf :
            (/\ c \in DOMAIN conf'
             /\ Len(conf'[c].writes) = Len(conf[c].writes) + 1)
            => LET r == conf[c]
                   item == r.staged[r.i]
                   ks == { k \in 1..Len(r.overrides) :
                             r.overrides[k].staged_item_id = item.id }
                   o == r.overrides[CHOOSE k \in ks : \A m \in ks : m <= k]
                   wr == conf'[c].writes[Len(conf'[c].writes)]
               IN  \E row \in pantry_items' :
                      /\ row.ingredient_id = wr.ingredient_id
                      /\ row.quantity = IF ks # {} /\ o.quantity # <<>>
                                        THEN o.quantity[1] ELSE item.quantity
                      /\ row.unit = IF ks # {} /\ o.unit # Null
                                    THEN o.unit ELSE item.unit]_vars

\* An add-item request wrote the row of one ingredient, and the confirm of
\* a job whose override sets the quantity 0 and the empty unit wrote the row
\* of another.
C38_Witness ==
    /\ reply.handler = "handleAddItem"
    /\ reply.code = 201
    /\ \E row \in pantry_items :
          row.ingredient_id = "ing2" /\ row.quantity = 5 /\ row.unit = "g"
    /\ \E c \in DOMAIN conf :
          /\ Len(conf[c].overrides) = 1
          /\ conf[c].overrides[1].quantity = <<0>>
          /\ conf[c].overrides[1].unit = ""
          /\ Len(conf[c].writes) = 1
          /\ conf[c].staged[1].quantity = 2
    /\ \E row \in pantry_items :
          row.ingredient_id = "ing1" /\ row.quantity = 0 /\ row.unit = ""

\* C39: an extraction that answers with no candidate is not a failure: the
\* goroutine goes straight to the status write and the job becomes staged
\* with no staged item; a confirm of such a job has nothing to loop over,
\* writes no inventory row, publishes nothing, and returns no error with the
\* job confirmed.
C39_EmptyExtraction ==
    /\ [](\A j \in DOMAIN proc :
            (proc[j].nItems = 0 /\ proc[j].pc # "extract" /\ ~proc[j].extractErr)
               => /\ staged_items[j] = <<>>
                  /\ proc[j].resolves = 0
                  /\ proc[j].pc \in {"setStaged", "done"}
                  /\ proc[j].pc = "done"
                        => ingestion_jobs[j].status \in {"staged", "confirmed"})
    /\ [](\A c \in DOMAIN conf :
            Len(conf[c].staged) = 0
               => conf[c].pc = "setConfirmed" /\ conf[c].writes = <<>>)
    /\ [][\A c \in DOMAIN conf :
            (Len(conf[c].staged) = 0 /\ Len(conf') < Len(conf))
               => /\ resp' = Response(conf[c].job, NoError)
                  /\ ingestion_jobs'[conf[c].job].status = "confirmed"
                  /\ pantry_items' = pantry_items
                  /\ calls' = calls]_vars
    /\ [](\A j \in DOMAIN ingestion_jobs :
            (ingestion_jobs[j].status = "confirmed" /\ staged_items[j] = <<>>)
               => pantry_items = {} /\ calls.publish = 0)

\* The extraction answered with an empty list, the job was staged without
\* staged items, and the confirm returned no error and wrote nothing.
C39_Witness ==
    \E j \in DOMAIN ingestion_jobs :
        /\ ingestion_jobs[j].status = "confirmed"
        /\ calls.llm = 1
        /\ calls.dictionary = 0
        /\ ~proc[j].extractErr
        /\ proc[j].nItems = 0
        /\ staged_items[j] = <<>>
        /\ resp = Response(j, NoError)
        /\ pantry_items = {}
        /\ calls.publish = 0

\* C40: a delete or a reset request changes no job, no staged item, no
\* goroutine and no confirm in progress; a confirm request is turned down
\* only when its job is unknown or not staged, whatever the inventory holds,
\* and otherwise starts with the job's staged items; where the inventory has no
\* row for the ingredient of a staged item the confirm inserts a new row
\* with the values it computes from the staged item.
C40_DeleteAndResetKeepJobs ==
    /\ [][(nRequests'.delete # nRequests.delete \/ nRequests'.reset # nRequests.reset)
            => /\ ingestion_jobs' = ingestion_jobs
               /\ staged_items' = staged_items
               /\ proc' = proc
               /\ conf' = conf
               /\ audit' = audit
               /\ resp' = resp]_vars
    /\ [][nRequests'.confirm # nRequests.confirm
            => \/ /\ Len(conf') = Len(conf) + 1
                  /\ conf'[Len(conf')].job \in DOMAIN ingestion_jobs
                  /\ ingestion_jobs[conf'[Len(conf')].job].status = "staged"
                  /\ conf'[Len(conf')].staged
                        \in ListStagedItemsByJob(conf'[Len(conf')].job)
               \/ /\ conf' = conf
                  /\ resp'.err # NoError
                  /\ \/ resp'.job \notin DOMAIN ingestion_jobs
                     \/ ingestion_jobs[resp'.job].status # "staged"]_vars
    /\ [][\A c \in DOMAIN conf :
            (/\ Len(conf') = Len(conf)
             /\ conf'[c].job = conf[c].job
             /\ conf'[c].i = conf[c].i + 1
             /\ Len(conf'[c].writes) = Len(conf[c].writes) + 1)
            => LET item == conf[c].staged[conf[c].i]
                   id == EffectiveIngredientID(item, conf[c].overrides)
               IN  (\A row \in pantry_items : row.ingredient_id # id)
                   => pantry_items' = pantry_items \cup
                         { [id |-> next_pantry_id, ingredient_id |-> id,
                            quantity |-> EffectiveQuantity(item, conf[c].overrides),
                            unit |-> EffectiveUnit(item, conf[c].overrides),
                            expires_at |-> Null] }]_vars

\* The row of the staged item's ingredient was added directly, a reset
\* deleted it, and the one confirm of the job inserted it again with the
\* staged quantity and unit.
C40_Witness ==
    \E j \in DOMAIN ingestion_jobs :
        /\ ingestion_jobs[j].status = "confirmed"
        /\ audit[j].passed = 1
        /\ nRequests.add = 1
        /\ nRequests.delete = 0
        /\ nRequests.reset = 1
        /\ calls.dictionary = 1
        /\ next_pantry_id = 3
        /\ staged_items[j][1].ingredient_id = "ing1"
        /\ pantry_items = { [id |-> 2, ingredient_id |-> "ing1", quantity |-> 2,
                             unit |-> "cup", expires_at |-> Null] }

====
